---- MODULE Spec2Model ----
(***************************************************************************)
(* Model of the "Today Reminders" client (App.tsx, lib/supabase.ts) and of *)
(* the tasks table it talks to (migrations/20260212000100_create_tasks.sql)*)
(*                                                                         *)
(* The state is the React state and refs of SignedInView, the requests     *)
(* that are in flight between the client and the data store, and the rows  *)
(* of public.tasks.  One action models one event handler, effect, timer    *)
(* callback, or the continuation of an async handler after its await.      *)
(***************************************************************************)
EXTENDS Integers, Sequences, FiniteSets, TLC

(***************************************************************************)
(* Bounds of the model (not program constants).                            *)
(***************************************************************************)
MaxTasks == 2          \* rows the data store will ever create
MaxBucketTasks == 8    \* rows the store holds when the buckets are computed
MaxInflight == 2       \* requests awaiting their response at one time
TzOffsetMin == 420     \* local time = UTC + TzOffsetMin minutes
InnerHeight == 800     \* window.innerHeight in px

(***************************************************************************)
(* Program constants.                                                      *)
(***************************************************************************)
TitleMax == 160
NotesMax == 1000
pullRefreshTriggerPx == 72
pullRefreshMaxPx == 96
actionWidth == 88
sheetCloseDragPx == 120

NoUser == "none"                      \* userId null / undefined
Users == {"u1", "u2"}
AnyUser == "any"                      \* a request without .eq("clerk_user_id", ..)
NoId == 0                             \* null task id
Ids == 1..MaxTasks

Priorities == {"low", "medium", "high"}
FormErrorKeys == {"title", "dueDate", "reminderAt", "notes"}

(***************************************************************************)
(* Strings whose content matters (title, notes) are sequences of           *)
(* one-character strings.                                                  *)
(***************************************************************************)
Repeat(c, n) == [i \in 1..n |-> c]

RECURSIVE TrimStart(_)
TrimStart(s) == IF s # <<>> /\ Head(s) = " " THEN TrimStart(Tail(s)) ELSE s

RECURSIVE TrimEnd(_)
TrimEnd(s) ==
    IF s # <<>> /\ s[Len(s)] = " " THEN TrimEnd(SubSeq(s, 1, Len(s) - 1)) ELSE s

\* String.prototype.trim
Trim(s) == TrimEnd(TrimStart(s))

(***************************************************************************)
(* Calendar dates are records [y, m, d]; "YYYY-MM-DD" strings compare      *)
(* lexicographically, which is the order below.                            *)
(***************************************************************************)
IsLeap(y) == (y % 4 = 0 /\ y % 100 # 0) \/ y % 400 = 0

DaysInMonth(y, m) ==
    IF m = 2 THEN (IF IsLeap(y) THEN 29 ELSE 28)
    ELSE IF m \in {4, 6, 9, 11} THEN 30 ELSE 31

MkDate(y, m, d) == [y |-> y, m |-> m, d |-> d]

DateLT(a, b) ==
    \/ a.y < b.y
    \/ a.y = b.y /\ a.m < b.m
    \/ a.y = b.y /\ a.m = b.m /\ a.d < b.d

DateLE(a, b) == a = b \/ DateLT(a, b)

NextDay(a) ==
    IF a.d < DaysInMonth(a.y, a.m) THEN MkDate(a.y, a.m, a.d + 1)
    ELSE IF a.m < 12 THEN MkDate(a.y, a.m + 1, 1)
    ELSE MkDate(a.y + 1, 1, 1)

PrevDay(a) ==
    IF a.d > 1 THEN MkDate(a.y, a.m, a.d - 1)
    ELSE IF a.m > 1 THEN MkDate(a.y, a.m - 1, DaysInMonth(a.y, a.m - 1))
    ELSE MkDate(a.y - 1, 12, 31)

RECURSIVE AddDays(_, _)
AddDays(a, n) ==
    IF n = 0 THEN a
    ELSE IF n > 0 THEN AddDays(NextDay(a), n - 1)
    ELSE AddDays(PrevDay(a), n + 1)

\* Date.prototype.setMonth(getMonth() + 1): the day of the month is kept and
\* an overflow past the end of the target month rolls into the month after.
AddMonth(a) ==
    LET ny == IF a.m = 12 THEN a.y + 1 ELSE a.y
        nm == IF a.m = 12 THEN 1 ELSE a.m + 1
        dim == DaysInMonth(ny, nm)
    IN  IF a.d <= dim THEN MkDate(ny, nm, a.d)
        ELSE AddDays(MkDate(ny, nm, dim), a.d - dim)

(***************************************************************************)
(* A point in time is [date, sec]: a datetime-local form value is a local  *)
(* wall time with sec a multiple of 60, a timestamptz of the store is a    *)
(* UTC time.  NoTime is the empty string / null.                           *)
(***************************************************************************)
MkTime(date, sec) == [date |-> date, sec |-> sec]
NoTime == MkTime(MkDate(0, 0, 0), 0)

\* order of new Date(..).getTime() for two times of the same zone
TimeGT(a, b) == DateLT(b.date, a.date) \/ (a.date = b.date /\ a.sec > b.sec)

\* shift a time by a number of minutes within one day either way
ShiftMinutes(t, delta) ==
    LET s == t.sec + delta * 60
    IN  IF s < 0 THEN MkTime(PrevDay(t.date), s + 86400)
        ELSE IF s >= 86400 THEN MkTime(NextDay(t.date), s - 86400)
        ELSE MkTime(t.date, s)

\* toIsoStringOrNull: local wall time to the UTC instant
toIsoStringOrNull(value) ==
    IF value = NoTime THEN NoTime ELSE ShiftMinutes(value, 0 - TzOffsetMin)

\* toDateTimeLocalValue: UTC instant to local wall time, seconds dropped
toDateTimeLocalValue(value) ==
    IF value = NoTime THEN NoTime
    ELSE LET l == ShiftMinutes(value, TzOffsetMin)
         IN  MkTime(l.date, (l.sec \div 60) * 60)

(***************************************************************************)
(* Date presets.                                                           *)
(***************************************************************************)
Presets == {"today", "tomorrow", "next-week", "next-month"}

\* dateForPreset, with new Date() passed as now
dateForPreset(preset, now) ==
    IF preset = "today" THEN now
    ELSE IF preset = "tomorrow" THEN AddDays(now, 1)
    ELSE IF preset = "next-week" THEN AddDays(now, 7)
    ELSE AddMonth(now)

\* presetOptions order
PresetOrder == <<"today", "tomorrow", "next-week", "next-month">>

RECURSIVE DetectFrom(_, _, _)
DetectFrom(i, dateOnly, now) ==
    IF i > Len(PresetOrder) THEN "custom"
    ELSE IF dateForPreset(PresetOrder[i], now) = dateOnly THEN PresetOrder[i]
    ELSE DetectFrom(i + 1, dateOnly, now)

detectPreset(dateOnly, now) == DetectFrom(1, dateOnly, now)

(***************************************************************************)
(* taskFormSchema.safeParse and mapZodErrors.                              *)
(***************************************************************************)
NoErrors == [k \in FormErrorKeys |-> ""]

\* z.string().trim().min(1, ..).max(160, ..)
TitleIssueUntrimmed(t) ==
    IF Len(t) < 1 THEN "Task is required"
    ELSE IF Len(t) > TitleMax THEN "Task title is too long"
    ELSE ""
TitleIssue(t) ==
    IF Len(Trim(t)) < 1 THEN "Task is required"
    ELSE IF Len(Trim(t)) > TitleMax THEN "Task title is too long"
    ELSE ""

\* z.string().trim().max(1000, ..)
NotesIssue(n) == IF Len(Trim(n)) > NotesMax THEN "Notes are too long" ELSE ""

isPriorityAny(value) == TRUE
isPriority(value) == value = "low" \/ value = "medium" \/ value = "high"

\* superRefine: the reminder may not be after the last second of the due date
ReminderIssueNextDay(due, rem) ==
    IF rem = NoTime THEN ""
    ELSE IF TimeGT(rem, MkTime(NextDay(due), 86399))
         THEN "Reminder should be on or before the due date"
         ELSE ""
ReminderIssue(due, rem) ==
    IF rem = NoTime THEN ""
    ELSE IF TimeGT(rem, MkTime(due, 86399))
         THEN "Reminder should be on or before the due date"
         ELSE ""

\* the form as handleSubmit passes it to safeParse
FormOf(t, due, prio, rem, n) ==
    [title |-> t, dueDate |-> due, priority |-> prio, reminderAt |-> rem, notes |-> n]

\* parsed.success.  An invalid enum value aborts the object, so superRefine
\* does not run for it.
ParseSuccess(f) ==
    /\ f.priority \in Priorities
    /\ TitleIssue(f.title) = ""
    /\ NotesIssue(f.notes) = ""
    /\ ReminderIssue(f.dueDate, f.reminderAt) = ""

\* mapZodErrors(parsed.error): the first issue of each form field
mapZodErrorsNoRefine(f) ==
    [k \in FormErrorKeys |->
        IF k = "title" THEN TitleIssue(f.title)
        ELSE IF k = "notes" THEN NotesIssue(f.notes)
        ELSE ""]
mapZodErrors(f) ==
    [k \in FormErrorKeys |->
        IF k = "title" THEN TitleIssue(f.title)
        ELSE IF k = "notes" THEN NotesIssue(f.notes)
        ELSE IF k = "reminderAt" /\ f.priority \in Priorities
             THEN ReminderIssue(f.dueDate, f.reminderAt)
        ELSE ""]

\* parsed.data turned into the request payload
PayloadOf(f) ==
    [title |-> Trim(f.title), due_date |-> f.dueDate, priority |-> f.priority,
     reminder_at |-> toIsoStringOrNull(f.reminderAt), notes |-> Trim(f.notes)]

NoPayload ==
    [title |-> <<>>, due_date |-> MkDate(0, 0, 0), priority |-> "",
     reminder_at |-> NoTime, notes |-> <<>>]

(***************************************************************************)
(* Rows of public.tasks and the client's Task.                             *)
(***************************************************************************)
\* fromTaskRow
fromTaskRow(row) ==
    [id |-> row.id, title |-> row.title, notes |-> row.notes,
     dueDate |-> row.due_date, reminderAt |-> toDateTimeLocalValue(row.reminder_at),
     priority |-> row.priority, completed |-> row.completed,
     createdAt |-> row.created_at]

MapRows(rows) == [i \in 1..Len(rows) |-> fromTaskRow(rows[i])]

TaskIds(ts) == {ts[i].id : i \in 1..Len(ts)}

TodayDate == MkDate(2026, 1, 31)       \* toDateOnly(new Date())

(***************************************************************************)
(* State.                                                                  *)
(***************************************************************************)
VARIABLES
    inputs,                 \* the values the environment may supply (fixed)
    userId,                 \* useAuth().userId
    hasSupabaseEnv,         \* lib/supabase hasSupabaseEnv; supabase # null
    tasks,                  \* useState<Task[]>
    isLoadingTasks,
    isMutating,
    errorMessage,
    isMobile,
    isQuickAddOpen,
    isQuickAddClosing,
    deleteCandidateId,
    selectedPreset,
    editingTaskId,
    pullDistance,           \* in units of 1/PullScale px
    isRefreshing,
    title,
    dueDate,
    isDueDatePickerOpen,
    priority,
    reminderAt,
    notes,
    formErrors,
    pullStartRef,           \* TRUE when pullStartRef.current # null
    quickAddCloseTimerRef,  \* TRUE when a close timer is pending
    loadedUserRef,
    inflight,               \* requests awaiting their response
    db,                     \* rows of public.tasks
    nextId,                 \* next row id the store hands out
    rowTouch,               \* per row: a finger is down on the row
    swipeOffset,            \* per row (TaskRow state), in px
    isDragging,             \* per row
    dragBaseRef,            \* per row
    isSwipingRef,           \* per row
    quickAddDragY,          \* in px
    isQuickAddDragging,
    quickAddFramePending,   \* TRUE when a requestAnimationFrame callback is pending
    quickAddTouchStartRef,  \* TRUE when quickAddTouchStartRef.current # null
    quickAddCanDragRef,
    clientGen,              \* which memoized Supabase client is current (0 or 1)
    sheetTouch              \* the finger on the sheet: "none", "allowed" (began on the
                            \* grab zone or with the content at its top) or "blocked"

authVars == <<userId, hasSupabaseEnv, loadedUserRef, clientGen>>
listVars == <<tasks, isLoadingTasks, isMutating, errorMessage, isRefreshing>>
sheetVars == <<isMobile, isQuickAddOpen, isQuickAddClosing, quickAddCloseTimerRef>>
formVars == <<selectedPreset, editingTaskId, title, dueDate, isDueDatePickerOpen,
              priority, reminderAt, notes, formErrors>>
pullVars == <<pullDistance, pullStartRef>>
storeVars == <<db, nextId>>
swipeVars == <<rowTouch, swipeOffset, isDragging, dragBaseRef, isSwipingRef>>
sheetMotionVars == <<quickAddDragY, isQuickAddDragging, quickAddFramePending>>
sheetTouchVars == <<quickAddTouchStartRef, quickAddCanDragRef, sheetTouch>>

vars == <<inputs, authVars, listVars, sheetVars, formVars, pullVars, storeVars,
          deleteCandidateId, inflight, swipeVars, sheetMotionVars, sheetTouchVars>>

PullScale == 20     \* delta * 0.45 = delta * 9 / PullScale

\* the form fields as one value
FormFields == FormOf(title, dueDate, priority, reminderAt, notes)

(***************************************************************************)
(* Requests.  A request carries what was sent, the values the handler's    *)
(* closure captured when it was called, and, once the store has answered,  *)
(* the response.  tasks0, form0 and editing0 record the client state when  *)
(* the handler was called.                                                 *)
(***************************************************************************)
MutationKinds == {"insert", "update", "toggle", "delete", "deleteIn"}

NewRequest(kind, id, ids, payload, completed, showLoadingState, refresh) ==
    [kind |-> kind,
     user |-> userId,               \* .eq("clerk_user_id", userId) / insert value
     sub |-> userId,                \* subject of the Clerk token of the fetch
     id |-> id, ids |-> ids, payload |-> payload, completed |-> completed,
     showLoadingState |-> showLoadingState, refresh |-> refresh,
     cIsMobile |-> isMobile, cEditing |-> editingTaskId,
     cOpen |-> isQuickAddOpen, cClosing |-> isQuickAddClosing,
     phase |-> "sent", outcome |-> "", data |-> <<>>, message |-> "",
     tasks0 |-> tasks, form0 |-> FormFields, editing0 |-> editingTaskId]

SelectRequest(showLoadingState, refresh) ==
    NewRequest("select", NoId, {}, NoPayload, FALSE, showLoadingState, refresh)

RemoveAt(s, i) == SubSeq(s, 1, i - 1) \o SubSeq(s, i + 1, Len(s))

CanSend == Len(inflight) < MaxInflight

(***************************************************************************)
(* The data store: public.tasks with its check constraints and row-level   *)
(* security policies.                                                      *)
(***************************************************************************)
\* check (char_length(trim(title)) > 0) and check (priority in (..))
RowChecks(row) ==
    /\ Len(Trim(row.title)) > 0
    /\ row.priority \in {"low", "medium", "high"}

\* using / with check ((auth.jwt() ->> 'sub') = clerk_user_id)
RlsAllowsAuthenticated(sub, row) == sub # NoUser
RlsAllows(sub, row) == sub = row.clerk_user_id

\* grant select, insert, update, delete on public.tasks to authenticated
Granted(sub) == sub # NoUser

RowLT(a, b) ==
    \/ DateLT(a.due_date, b.due_date)
    \/ a.due_date = b.due_date /\ a.created_at < b.created_at

\* .order("due_date").order("created_at")
RECURSIVE OrderRows(_)
OrderRows(S) ==
    IF S = {} THEN <<>>
    ELSE LET first == CHOOSE r \in S : \A o \in S \ {r} : RowLT(r, o)
         IN  <<first>> \o OrderRows(S \ {first})

Matching(req) ==
    {r \in db : /\ req.user # AnyUser => r.clerk_user_id = req.user
                /\ RlsAllows(req.sub, r)
                /\ (req.kind \in {"update", "toggle", "delete"} => r.id = req.id)
                /\ (req.kind = "deleteIn" => r.id \in req.ids)}

InsertedRow(req) ==
    [id |-> nextId, clerk_user_id |-> req.user, title |-> req.payload.title,
     notes |-> req.payload.notes, due_date |-> req.payload.due_date,
     reminder_at |-> req.payload.reminder_at, priority |-> req.payload.priority,
     completed |-> FALSE, created_at |-> nextId]

UpdatedRow(req, r) ==
    IF req.kind = "toggle" THEN [r EXCEPT !.completed = req.completed]
    ELSE [r EXCEPT !.title = req.payload.title, !.notes = req.payload.notes,
                   !.due_date = req.payload.due_date,
                   !.reminder_at = req.payload.reminder_at,
                   !.priority = req.payload.priority,
                   !.clerk_user_id =
                       IF "clerk_user_id" \in DOMAIN req.payload
                       THEN req.payload.clerk_user_id ELSE @]

\* can the store carry the request out
Accepts(req) ==
    /\ Granted(req.sub)
    /\ CASE req.kind = "insert" ->
            /\ nextId <= MaxTasks
            /\ RowChecks(InsertedRow(req))
            /\ RlsAllows(req.sub, InsertedRow(req))
      [] req.kind \in {"update", "toggle"} ->
            /\ Matching(req) # {}
            /\ \A r \in Matching(req) :
                   RowChecks(UpdatedRow(req, r)) /\ RlsAllows(req.sub, UpdatedRow(req, r))
      [] OTHER -> TRUE

Answer(i, outcome, data, message) ==
    inflight' = [inflight EXCEPT ![i] =
        [@ EXCEPT !.phase = "answered", !.outcome = outcome,
                  !.data = data, !.message = message]]

\* the store carries the request out
StoreApply(i) ==
    LET req == inflight[i] IN
    /\ req.phase = "sent"
    /\ Accepts(req)
    /\ CASE req.kind = "select" ->
              /\ Answer(i, "ok", OrderRows(Matching(req)), "")
              /\ UNCHANGED storeVars
         [] req.kind = "insert" ->
              /\ db' = db \cup {InsertedRow(req)}
              /\ nextId' = nextId + 1
              /\ Answer(i, "ok", <<InsertedRow(req)>>, "")
         [] req.kind \in {"update", "toggle"} ->
              LET r == CHOOSE r \in Matching(req) : TRUE IN
              /\ db' = (db \ {r}) \cup {UpdatedRow(req, r)}
              /\ Answer(i, "ok", <<UpdatedRow(req, r)>>, "")
              /\ UNCHANGED nextId
         [] OTHER ->
              /\ db' = db \ Matching(req)
              /\ Answer(i, "ok", <<>>, "")
              /\ UNCHANGED nextId
    /\ UNCHANGED <<inputs, swipeVars, sheetTouchVars, sheetMotionVars, authVars, listVars, sheetVars, formVars, pullVars,
                   deleteCandidateId>>

\* the request fails: the store (or the network) answers with an error
StoreReject(i) ==
    /\ inflight[i].phase = "sent"
    /\ \E m \in inputs.errors : Answer(i, "error", <<>>, m)
    /\ UNCHANGED <<inputs, swipeVars, sheetTouchVars, sheetMotionVars, authVars, listVars, sheetVars, formVars, pullVars,
                   storeVars, deleteCandidateId>>

\* the awaited promise rejects
StoreThrow(i) ==
    /\ inflight[i].phase = "sent"
    /\ inputs.throws
    /\ Answer(i, "throw", <<>>, "")
    /\ UNCHANGED <<inputs, swipeVars, sheetTouchVars, sheetMotionVars, authVars, listVars, sheetVars, formVars, pullVars,
                   storeVars, deleteCandidateId>>

(***************************************************************************)
(* What is rendered.  A control can be operated when it is rendered and    *)
(* not disabled.                                                           *)
(***************************************************************************)
TaskById(id) == CHOOSE t \in {tasks[i] : i \in 1..Len(tasks)} : t.id = id

\* tasks.filter((task) => task.dueDate <= todayKey), as a set of ids
todayTaskIds == {tasks[i].id : i \in {j \in 1..Len(tasks) : DateLE(tasks[j].dueDate, TodayDate)}}

\* tasks.filter((task) => task.dueDate > todayKey), as a set of ids
upcomingTaskIds == TaskIds(tasks) \ todayTaskIds

\* deleteCandidateTask # null
DialogShown == deleteCandidateId # NoId /\ deleteCandidateId \in TaskIds(tasks)

\* the desktop card, or the sheet rendered under isMobile && isQuickAddOpen
FormRendered == ~isMobile \/ isQuickAddOpen

\* TaskRow disabled={isMutating || !hasSupabaseEnv}
RowDisabledEnvOnly == ~hasSupabaseEnv
RowDisabled == isMutating \/ ~hasSupabaseEnv

\* priorityRank
priorityRankSwapped(p) == CASE p = "medium" -> 0 [] p = "high" -> 1 [] OTHER -> 2
priorityRank(p) == CASE p = "high" -> 0 [] p = "medium" -> 1 [] OTHER -> 2

\* sortTasks(a, b): negative when a sorts before b.  created_at values are
\* timestamps of one width, so localeCompare orders them as numbers.
sortTasks(a, b) ==
    IF a.completed # b.completed
    THEN (IF a.completed THEN 1 ELSE 0) - (IF b.completed THEN 1 ELSE 0)
    ELSE IF priorityRank(a.priority) # priorityRank(b.priority)
    THEN priorityRank(a.priority) - priorityRank(b.priority)
    ELSE IF a.createdAt < b.createdAt THEN -1
    ELSE IF a.createdAt > b.createdAt THEN 1
    ELSE 0

\* one step of Array.prototype.sort, which is stable: t goes after every
\* element that does not sort after it
InsertSorted(s, t) ==
    LET k == Cardinality({i \in 1..Len(s) : sortTasks(s[i], t) <= 0})
    IN SubSeq(s, 1, k) \o <<t>> \o SubSeq(s, k + 1, Len(s))

RECURSIVE SortedTasks(_)
SortedTasks(s) ==
    IF s = <<>> THEN <<>>
    ELSE InsertSorted(SortedTasks(SubSeq(s, 1, Len(s) - 1)), s[Len(s)])

\* .slice(0, 6)
UpcomingMax == 6

\* tasks.filter((task) => task.dueDate <= todayKey).sort(sortTasks)
TodayOf(ts) ==
    LET DueByToday(t) == DateLE(t.dueDate, TodayDate)
    IN SortedTasks(SelectSeq(ts, DueByToday))

\* todayTasks
todayTasks == TodayOf(tasks)

\* tasks.filter((task) => task.dueDate > todayKey).sort(sortTasks).slice(0, 6)
UpcomingOfUnsliced(ts) ==
    LET DueLater(t) == ~DateLE(t.dueDate, TodayDate)
    IN SortedTasks(SelectSeq(ts, DueLater))
UpcomingOf(ts) ==
    LET DueLater(t) == ~DateLE(t.dueDate, TodayDate)
        sorted == SortedTasks(SelectSeq(ts, DueLater))
    IN SubSeq(sorted, 1, IF Len(sorted) < UpcomingMax THEN Len(sorted) ELSE UpcomingMax)

\* upcomingTasks
upcomingTasks == UpcomingOf(tasks)

\* a TaskRow is rendered for the tasks of the two buckets once the load is over
RowRendered(id) ==
    ~isLoadingTasks /\ id \in TaskIds(todayTasks) \cup TaskIds(upcomingTasks)

\* where the TaskRow of a task is mounted; its state lives while it stays there
RowSlot(ts, loading, id) ==
    IF loading THEN "none"
    ELSE IF id \in TaskIds(TodayOf(ts)) THEN "today"
    ELSE IF id \in TaskIds(UpcomingOf(ts)) THEN "upcoming"
    ELSE "none"

\* TaskRow state after a render with the given list, loading flag and
\* viewport: a row that was unmounted or mounted anew has its initial state,
\* and the [swipeEnabled, swipeOffset] effect closes the rows of a desktop
\* viewport
RowsAfter(nextTasks, nextLoading, nextMobile) ==
    LET kept == {id \in Ids : /\ RowSlot(tasks, isLoadingTasks, id) # "none"
                              /\ RowSlot(nextTasks, nextLoading, id)
                                   = RowSlot(tasks, isLoadingTasks, id)}
        open == IF nextMobile THEN kept ELSE {}
    IN
    /\ swipeOffset' = [id \in Ids |-> IF id \in open THEN swipeOffset[id] ELSE 0]
    /\ isDragging' = [id \in Ids |-> id \in kept /\ isDragging[id]]
    /\ dragBaseRef' = [id \in Ids |-> IF id \in kept THEN dragBaseRef[id] ELSE 0]
    /\ isSwipingRef' = [id \in Ids |-> id \in kept /\ isSwipingRef[id]]
    /\ rowTouch' = [id \in Ids |-> id \in kept /\ rowTouch[id]]

(***************************************************************************)
(* Effects that run after a render.                                        *)
(***************************************************************************)
\* effect [tasks, deleteCandidateId]
CandidateAfterKept(nextTasks, candidate) == candidate
CandidateAfter(nextTasks, candidate) ==
    IF candidate # NoId /\ candidate \notin TaskIds(nextTasks) THEN NoId ELSE candidate

\* effect [isQuickAddOpen]
PickerAfter(nextOpen, picker) ==
    IF nextOpen # isQuickAddOpen /\ ~nextOpen THEN FALSE ELSE picker

\* clearFormError(field)
clearFormError(errs, field) == [errs EXCEPT ![field] = ""]

\* resetFormFields()
resetFormFields ==
    /\ editingTaskId' = NoId
    /\ title' = <<>>
    /\ priority' = "medium"
    /\ reminderAt' = NoTime
    /\ notes' = <<>>
    /\ selectedPreset' = "today"
    /\ dueDate' = dateForPreset("today", TodayDate)
    /\ formErrors' = NoErrors

formFieldVars == <<selectedPreset, editingTaskId, title, dueDate, priority,
                   reminderAt, notes, formErrors>>

\* presentQuickAddSheet() under isMobile
presentQuickAddSheet ==
    /\ quickAddCloseTimerRef' = FALSE
    /\ isQuickAddOpen' = TRUE
    /\ isQuickAddClosing' = FALSE
    /\ isQuickAddDragging' = FALSE
    /\ quickAddDragY' = InnerHeight
    /\ quickAddFramePending' = TRUE

\* requestCloseQuickAddSheet() with the isQuickAddOpen / isQuickAddClosing its
\* closure holds; the timer ref is read when it runs
requestCloseQuickAddSheet(open, closing) ==
    IF ~open \/ closing
    THEN UNCHANGED <<isQuickAddOpen, isQuickAddClosing, quickAddCloseTimerRef,
                     sheetMotionVars>>
    ELSE /\ isQuickAddClosing' = TRUE
         /\ quickAddCloseTimerRef' = TRUE
         /\ isQuickAddDragging' = FALSE
         /\ quickAddDragY' = InnerHeight
         /\ UNCHANGED <<isQuickAddOpen, quickAddFramePending>>

\* resetForm({ closeQuickAdd }) with the values its closure holds
resetForm(closeQuickAdd, mobile, open, closing) ==
    IF closeQuickAdd /\ mobile
    THEN /\ requestCloseQuickAddSheet(open, closing)
         /\ UNCHANGED formFieldVars
         /\ UNCHANGED isDueDatePickerOpen
    ELSE /\ resetFormFields
         /\ isQuickAddOpen' = IF closeQuickAdd THEN FALSE ELSE isQuickAddOpen
         /\ isDueDatePickerOpen' =
                PickerAfter(IF closeQuickAdd THEN FALSE ELSE isQuickAddOpen,
                            isDueDatePickerOpen)
         /\ UNCHANGED <<isQuickAddClosing, quickAddCloseTimerRef, sheetMotionVars>>

(***************************************************************************)
(* Viewport, authentication, sheet.                                        *)
(***************************************************************************)
\* matchMedia change -> syncMedia, then the [isMobile] effect
ViewportChange ==
    /\ isMobile' = ~isMobile
    /\ IF isMobile    \* becomes desktop
       THEN /\ isQuickAddOpen' = FALSE
            /\ isQuickAddClosing' = FALSE
            /\ isQuickAddDragging' = FALSE
            /\ quickAddDragY' = 0
            /\ isDueDatePickerOpen' = PickerAfter(FALSE, isDueDatePickerOpen)
       ELSE UNCHANGED <<isQuickAddOpen, isQuickAddClosing, isDueDatePickerOpen,
                        isQuickAddDragging, quickAddDragY>>
    /\ sheetTouch' = IF isMobile THEN "none" ELSE sheetTouch   \* the sheet unmounts
    /\ UNCHANGED <<quickAddFramePending, quickAddTouchStartRef, quickAddCanDragRef>>
    /\ UNCHANGED <<inputs, authVars, listVars, quickAddCloseTimerRef, formFieldVars,
                   pullVars, storeVars, deleteCandidateId, inflight>>
    /\ RowsAfter(tasks, isLoadingTasks, ~isMobile)

\* useAuth() reports another userId; the two effects on userId run
AuthChange(u) ==
    /\ u # userId
    /\ userId' = u
    /\ IF u = NoUser
       THEN /\ loadedUserRef' = NoUser
            /\ UNCHANGED <<isLoadingTasks, errorMessage, inflight>>
       ELSE IF ~hasSupabaseEnv \/ loadedUserRef = u
       THEN UNCHANGED <<loadedUserRef, isLoadingTasks, errorMessage, inflight>>
       ELSE /\ CanSend
            /\ loadedUserRef' = u
            /\ isLoadingTasks' = TRUE
            /\ errorMessage' = ""
            /\ inflight' = Append(inflight,
                   [SelectRequest(TRUE, FALSE) EXCEPT !.user = u, !.sub = u])
    /\ UNCHANGED <<inputs, sheetTouchVars, sheetMotionVars, hasSupabaseEnv, clientGen, tasks, isMutating, isRefreshing, sheetVars,
                   formVars, pullVars, storeVars, deleteCandidateId>>
    /\ RowsAfter(tasks, isLoadingTasks \/ (u # NoUser /\ hasSupabaseEnv /\ loadedUserRef # u), isMobile)

\* the initial-load effect: does it call loadTasks(true) for user u
ShouldLoadAlways(u) == hasSupabaseEnv /\ u # NoUser
ShouldLoad(u) == hasSupabaseEnv /\ u # NoUser /\ loadedUserRef # u

\* getToken changes identity: useMemo builds another client, loadTasks is
\* another callback, and the initial-load effect runs again
SupabaseClientChange ==
    /\ clientGen' = 1 - clientGen
    /\ IF ShouldLoad(userId)
       THEN /\ CanSend
            /\ loadedUserRef' = userId
            /\ isLoadingTasks' = TRUE
            /\ errorMessage' = ""
            /\ inflight' = Append(inflight, SelectRequest(TRUE, FALSE))
       ELSE UNCHANGED <<loadedUserRef, isLoadingTasks, errorMessage, inflight>>
    /\ UNCHANGED <<inputs, swipeVars, sheetTouchVars, sheetMotionVars, userId, hasSupabaseEnv,
                   tasks, isMutating, isRefreshing, sheetVars, formVars, pullVars,
                   storeVars, deleteCandidateId>>
    /\ RowsAfter(tasks, isLoadingTasks \/ ShouldLoad(userId), isMobile)

\* the Quick Add button: openQuickAddForCreate()
openQuickAddForCreate ==
    /\ isMobile /\ ~isQuickAddOpen          \* lg:hidden, hidden while open
    /\ ~isMutating /\ hasSupabaseEnv
    /\ resetFormFields
    /\ presentQuickAddSheet
    /\ UNCHANGED <<inputs, swipeVars, sheetTouchVars, authVars, listVars, isMobile, isDueDatePickerOpen, pullVars,
                   storeVars, deleteCandidateId, inflight>>

\* the sheet's close button and backdrop, and the form's Cancel button
closeQuickAdd ==
    /\ \/ isMobile /\ isQuickAddOpen
       \/ ~isMobile /\ editingTaskId # NoId /\ ~isMutating
    /\ IF isMobile
       THEN /\ isQuickAddOpen /\ ~isQuickAddClosing
            /\ requestCloseQuickAddSheet(isQuickAddOpen, isQuickAddClosing)
            /\ UNCHANGED <<formFieldVars, isDueDatePickerOpen>>
       ELSE resetForm(TRUE, isMobile, isQuickAddOpen, isQuickAddClosing)
    /\ UNCHANGED <<inputs, swipeVars, sheetTouchVars, authVars, listVars, isMobile, pullVars, storeVars,
                   deleteCandidateId, inflight>>

\* the 220 ms timer of requestCloseQuickAddSheet fires
CloseTimerFire ==
    /\ quickAddCloseTimerRef
    /\ isQuickAddOpen' = FALSE
    /\ isQuickAddClosing' = FALSE
    /\ resetFormFields
    /\ quickAddCloseTimerRef' = FALSE
    /\ quickAddDragY' = 0
    /\ UNCHANGED <<isQuickAddDragging, quickAddFramePending>>
    /\ isDueDatePickerOpen' = PickerAfter(FALSE, isDueDatePickerOpen)
    /\ sheetTouch' = "none"                 \* the sheet unmounts
    /\ UNCHANGED <<quickAddTouchStartRef, quickAddCanDragRef>>
    /\ UNCHANGED <<inputs, swipeVars, authVars, listVars, isMobile, pullVars, storeVars,
                   deleteCandidateId, inflight>>

(***************************************************************************)
(* Dragging the quick-add sheet.  One finger at a time is on the sheet.    *)
(***************************************************************************)
SheetRendered == isMobile /\ isQuickAddOpen

SheetTouchFrame ==
    UNCHANGED <<inputs, swipeVars, authVars, listVars, isMobile, formVars, pullVars,
                storeVars, deleteCandidateId, inflight>>

\* the requestAnimationFrame callback of presentQuickAddSheet
QuickAddFrame ==
    /\ quickAddFramePending
    /\ quickAddFramePending' = FALSE
    /\ quickAddDragY' = 0
    /\ UNCHANGED isQuickAddDragging
    /\ UNCHANGED <<inputs, swipeVars, sheetTouchVars, authVars, listVars, sheetVars,
                   formVars, pullVars, storeVars, deleteCandidateId, inflight>>

\* onTouchStart of the sheet
handleQuickAddTouchStart(isGrabZone, scrolledTop) ==
    /\ SheetRendered /\ sheetTouch = "none"
    /\ sheetTouch' = IF isGrabZone \/ scrolledTop THEN "allowed" ELSE "blocked"
    /\ IF isQuickAddClosing
       THEN UNCHANGED <<quickAddTouchStartRef, quickAddCanDragRef, isQuickAddDragging>>
       ELSE /\ quickAddTouchStartRef' = TRUE
            /\ quickAddCanDragRef' = (isGrabZone \/ scrolledTop)
            /\ isQuickAddDragging' = FALSE
    /\ UNCHANGED <<quickAddDragY, quickAddFramePending, isQuickAddOpen, isQuickAddClosing,
                   quickAddCloseTimerRef>>
    /\ SheetTouchFrame

\* onTouchMove of the sheet; delta = currentY - quickAddTouchStartRef.current
handleQuickAddTouchMove(delta) ==
    /\ SheetRendered /\ sheetTouch # "none"
    /\ IF ~quickAddCanDragRef \/ ~quickAddTouchStartRef \/ isQuickAddClosing
       THEN UNCHANGED <<isQuickAddDragging, quickAddDragY>>
       ELSE IF delta <= 0
       THEN /\ isQuickAddDragging' = FALSE
            /\ quickAddDragY' = 0
       ELSE /\ isQuickAddDragging' = TRUE
            /\ quickAddDragY' = IF InnerHeight < delta THEN InnerHeight ELSE delta
    /\ UNCHANGED <<quickAddFramePending, sheetTouchVars, isQuickAddOpen, isQuickAddClosing,
                   quickAddCloseTimerRef>>
    /\ SheetTouchFrame

\* onTouchEnd / onTouchCancel of the sheet
handleQuickAddTouchEnd ==
    /\ SheetRendered /\ sheetTouch # "none"
    /\ sheetTouch' = "none"
    /\ quickAddTouchStartRef' = FALSE
    /\ quickAddCanDragRef' = FALSE
    /\ IF quickAddCanDragRef /\ quickAddDragY > sheetCloseDragPx
       THEN requestCloseQuickAddSheet(isQuickAddOpen, isQuickAddClosing)
       ELSE /\ isQuickAddDragging' = FALSE
            /\ quickAddDragY' = 0
            /\ UNCHANGED <<quickAddFramePending, isQuickAddOpen, isQuickAddClosing,
                           quickAddCloseTimerRef>>
    /\ SheetTouchFrame

(***************************************************************************)
(* Form fields.  Every control but the calendar's day buttons is disabled  *)
(* while isMutating.                                                       *)
(***************************************************************************)
FormEnabled == FormRendered /\ ~isMutating

FormFrame == UNCHANGED <<inputs, swipeVars, sheetTouchVars, sheetMotionVars, authVars, listVars, sheetVars, pullVars, storeVars,
                         deleteCandidateId, inflight>>

SetTitle(v) ==
    /\ FormEnabled
    /\ title' = v
    /\ formErrors' = clearFormError(formErrors, "title")
    /\ UNCHANGED <<selectedPreset, editingTaskId, dueDate, isDueDatePickerOpen,
                   priority, reminderAt, notes>>
    /\ FormFrame

SetNotes(v) ==
    /\ FormEnabled
    /\ notes' = v
    /\ formErrors' = clearFormError(formErrors, "notes")
    /\ UNCHANGED <<selectedPreset, editingTaskId, title, dueDate, isDueDatePickerOpen,
                   priority, reminderAt>>
    /\ FormFrame

\* the datetime-local input, the Clear button (v = NoTime)
SetReminderAt(v) ==
    /\ FormEnabled
    /\ reminderAt' = v
    /\ formErrors' = clearFormError(formErrors, "reminderAt")
    /\ UNCHANGED <<selectedPreset, editingTaskId, title, dueDate, isDueDatePickerOpen,
                   priority, notes>>
    /\ FormFrame

\* applyReminderPreset(hour, minute)
applyReminderPreset(hour, minute) ==
    /\ FormEnabled
    /\ reminderAt' = MkTime(dueDate, hour * 3600 + minute * 60)
    /\ formErrors' = clearFormError(formErrors, "reminderAt")
    /\ UNCHANGED <<selectedPreset, editingTaskId, title, dueDate, isDueDatePickerOpen,
                   priority, notes>>
    /\ FormFrame

\* Select onValueChange
SelectPriority(value) ==
    /\ FormEnabled
    /\ priority' = IF isPriority(value) THEN value ELSE priority
    /\ UNCHANGED <<selectedPreset, editingTaskId, title, dueDate, isDueDatePickerOpen,
                   reminderAt, notes, formErrors>>
    /\ FormFrame

\* a preset button, then the [selectedPreset] effect when the preset changed
\* a preset button, with new Date() passed as now
ChoosePresetAt(p, now) ==
    /\ FormEnabled
    /\ selectedPreset' = p
    /\ isDueDatePickerOpen' = FALSE
    /\ IF p # selectedPreset
       THEN /\ dueDate' = dateForPreset(p, now)
            /\ formErrors' = clearFormError(formErrors, "dueDate")
       ELSE UNCHANGED <<dueDate, formErrors>>
    /\ UNCHANGED <<editingTaskId, title, priority, reminderAt, notes>>
    /\ FormFrame

ChoosePreset(p) == ChoosePresetAt(p, TodayDate)

openDueDatePicker ==
    /\ FormEnabled
    /\ isDueDatePickerOpen' = ~isDueDatePickerOpen
    /\ UNCHANGED formFieldVars
    /\ FormFrame

\* a day button of the calendar (not disabled by isMutating): pickDueDate(date)
\* a day of the calendar, with new Date() passed as now
pickDueDateAt(date, now) ==
    /\ FormRendered /\ isDueDatePickerOpen
    /\ dueDate' = date
    /\ selectedPreset' = detectPreset(date, now)
    /\ formErrors' = clearFormError(formErrors, "dueDate")
    /\ isDueDatePickerOpen' = FALSE
    /\ UNCHANGED <<editingTaskId, title, priority, reminderAt, notes>>
    /\ FormFrame

pickDueDate(date) == pickDueDateAt(date, TodayDate)

(***************************************************************************)
(* TaskRow: the swipe that reveals the delete button.  rowTouch records    *)
(* that a finger is down on the row; the handlers see the touch events.    *)
(***************************************************************************)
Abs(n) == IF n < 0 THEN 0 - n ELSE n

\* the touch wrapper is rendered under swipeEnabled
RowTouchable(id) == isMobile /\ RowSlot(tasks, isLoadingTasks, id) # "none"

\* handleTouchStart
handleTouchStart(id) ==
    /\ RowTouchable(id) /\ ~rowTouch[id]
    /\ rowTouch' = [rowTouch EXCEPT ![id] = TRUE]
    /\ IF RowDisabled
       THEN UNCHANGED <<swipeOffset, isDragging, dragBaseRef, isSwipingRef>>
       ELSE /\ dragBaseRef' = [dragBaseRef EXCEPT ![id] = swipeOffset[id]]
            /\ isSwipingRef' = [isSwipingRef EXCEPT ![id] = FALSE]
            /\ isDragging' = [isDragging EXCEPT ![id] = TRUE]
            /\ UNCHANGED swipeOffset
    /\ UNCHANGED <<inputs, sheetTouchVars, sheetMotionVars, authVars, listVars, sheetVars,
                   formVars, pullVars, storeVars, deleteCandidateId, inflight>>

\* handleTouchMove; dx, dy are the touch position minus touchStartRef.current
handleTouchMove(id, dx, dy) ==
    /\ RowTouchable(id) /\ rowTouch[id]
    /\ IF RowDisabled \/ (~isSwipingRef[id] /\ Abs(dx) < 12)
       THEN UNCHANGED <<swipeOffset, isDragging, isSwipingRef>>
       ELSE IF ~isSwipingRef[id] /\ Abs(dy) * 10 > Abs(dx) * 9
       THEN /\ isDragging' = [isDragging EXCEPT ![id] = FALSE]
            /\ UNCHANGED <<swipeOffset, isSwipingRef>>
       ELSE /\ isSwipingRef' = [isSwipingRef EXCEPT ![id] = TRUE]
            /\ swipeOffset' = [swipeOffset EXCEPT ![id] =
                   LET raw == dragBaseRef[id] - dx
                       low == IF raw < 0 THEN 0 ELSE raw
                   IN IF low > actionWidth THEN actionWidth ELSE low]
            /\ UNCHANGED isDragging
    /\ UNCHANGED <<inputs, sheetTouchVars, sheetMotionVars, authVars, listVars, sheetVars,
                   formVars, pullVars, storeVars, deleteCandidateId, inflight,
                   rowTouch, dragBaseRef>>

\* handleTouchEnd (touch end and touch cancel)
handleTouchEnd(id) ==
    /\ rowTouch[id]
    /\ rowTouch' = [rowTouch EXCEPT ![id] = FALSE]
    /\ IF ~isMobile \/ RowDisabled
       THEN UNCHANGED <<swipeOffset, isDragging, isSwipingRef>>
       ELSE /\ isDragging' = [isDragging EXCEPT ![id] = FALSE]
            /\ IF ~isSwipingRef[id]
               THEN UNCHANGED <<swipeOffset, isSwipingRef>>
               ELSE /\ swipeOffset' = [swipeOffset EXCEPT ![id] =
                          IF swipeOffset[id] * 100 > actionWidth * 45
                          THEN actionWidth ELSE 0]
                    /\ isSwipingRef' = [isSwipingRef EXCEPT ![id] = FALSE]
    /\ UNCHANGED <<inputs, sheetTouchVars, sheetMotionVars, authVars, listVars, sheetVars,
                   formVars, pullVars, storeVars, deleteCandidateId, inflight,
                   dragBaseRef>>

\* the checkbox or the edit button of a row whose swipe is open:
\* closeSwipeIfOpen() returns true and nothing else happens
closeSwipeIfOpen(id) ==
    /\ RowRendered(id) /\ ~RowDisabled
    /\ swipeOffset[id] > 0
    /\ swipeOffset' = [swipeOffset EXCEPT ![id] = 0]
    /\ UNCHANGED <<inputs, sheetTouchVars, sheetMotionVars, authVars, listVars, sheetVars,
                   formVars, pullVars, storeVars, deleteCandidateId, inflight,
                   rowTouch, isDragging, dragBaseRef, isSwipingRef>>

(***************************************************************************)
(* Handlers that call the data store: the part up to the await.            *)
(***************************************************************************)
\* if (!userId || !supabase) return;
HasSessionEnvOnly == hasSupabaseEnv
HasSession == userId # NoUser /\ hasSupabaseEnv

\* setIsMutating(true); setErrorMessage(""); then the request goes out
StartMutation(req) ==
    /\ CanSend
    /\ isMutating' = TRUE
    /\ errorMessage' = ""
    /\ inflight' = Append(inflight, req)
    /\ UNCHANGED <<tasks, isLoadingTasks, isRefreshing>>

\* handleSubmit, up to the await
handleSubmit ==
    /\ FormEnabled
    /\ HasSession
    /\ IF ~ParseSuccess(FormFields)
       THEN /\ formErrors' = mapZodErrors(FormFields)
            /\ UNCHANGED <<listVars, inflight>>
       ELSE /\ formErrors' = NoErrors
            /\ StartMutation(
                 IF editingTaskId # NoId
                 THEN NewRequest("update", editingTaskId, {}, PayloadOf(FormFields),
                                 FALSE, FALSE, FALSE)
                 ELSE NewRequest("insert", NoId, {}, PayloadOf(FormFields),
                                 FALSE, FALSE, FALSE))
    /\ UNCHANGED <<inputs, swipeVars, sheetTouchVars, sheetMotionVars, authVars, sheetVars, selectedPreset, editingTaskId, title,
                   dueDate, isDueDatePickerOpen, priority, reminderAt, notes,
                   pullVars, storeVars, deleteCandidateId>>

\* the checkbox of a row of Today Focus: toggleTask(id), up to the await
toggleTask(id) ==
    /\ RowRendered(id) /\ id \in todayTaskIds /\ ~RowDisabled
    /\ swipeOffset[id] = 0                  \* else closeSwipeIfOpen() returns true
    /\ HasSession
    /\ StartMutation(NewRequest("toggle", id, {}, NoPayload,
                                ~TaskById(id).completed, FALSE, FALSE))
    /\ UNCHANGED <<inputs, swipeVars, sheetTouchVars, sheetMotionVars, authVars, sheetVars, formVars, pullVars, storeVars,
                   deleteCandidateId>>

\* the edit button of a row: startEdit(id)
startEdit(id) ==
    /\ RowRendered(id) /\ ~RowDisabled
    /\ swipeOffset[id] = 0                  \* else closeSwipeIfOpen() returns true
    /\ LET task == TaskById(id) IN
       /\ editingTaskId' = task.id
       /\ title' = task.title
       /\ dueDate' = task.dueDate
       /\ priority' = task.priority
       /\ reminderAt' = task.reminderAt
       /\ notes' = task.notes
       /\ selectedPreset' = detectPreset(task.dueDate, TodayDate)
       /\ formErrors' = NoErrors
    /\ IF isMobile
       THEN presentQuickAddSheet
       ELSE UNCHANGED <<isQuickAddOpen, isQuickAddClosing, quickAddCloseTimerRef,
                        sheetMotionVars>>
    /\ UNCHANGED <<inputs, swipeVars, sheetTouchVars, authVars, listVars, isMobile, isDueDatePickerOpen, pullVars,
                   storeVars, deleteCandidateId, inflight>>

\* the delete button of a row (inline, or revealed by the swipe): requestDelete(id)
requestDeleteNow(id) ==
    /\ RowRendered(id) /\ ~RowDisabled /\ ~isMutating
    /\ deleteCandidateId' = id
    /\ StartMutation(NewRequest("delete", id, {}, NoPayload, FALSE, FALSE, FALSE))
    /\ UNCHANGED <<inputs, swipeVars, sheetTouchVars, sheetMotionVars, authVars, sheetVars, formVars, pullVars, storeVars>>
requestDelete(id) ==
    /\ RowRendered(id) /\ ~RowDisabled
    /\ deleteCandidateId' = id
    /\ UNCHANGED <<inputs, swipeVars, sheetTouchVars, sheetMotionVars, authVars, listVars, sheetVars, formVars, pullVars,
                   storeVars, inflight>>

\* the dialog's backdrop and Cancel button: cancelDelete()
cancelDelete ==
    /\ DialogShown
    /\ deleteCandidateId' = NoId
    /\ UNCHANGED <<inputs, swipeVars, sheetTouchVars, sheetMotionVars, authVars, listVars, sheetVars, formVars, pullVars,
                   storeVars, inflight>>

\* the dialog's Delete button: confirmDelete(), up to the await
confirmDelete ==
    /\ DialogShown /\ ~isMutating
    /\ HasSession
    /\ StartMutation(NewRequest("delete", deleteCandidateId, {}, NoPayload,
                                FALSE, FALSE, FALSE))
    /\ UNCHANGED <<inputs, swipeVars, sheetTouchVars, sheetMotionVars, authVars, sheetVars, formVars, pullVars, storeVars,
                   deleteCandidateId>>

completedTaskIds == {tasks[i].id : i \in {j \in 1..Len(tasks) : tasks[j].completed}}

\* the Clear completed button: clearCompleted(), up to the await
clearCompleted ==
    /\ ~isMutating /\ completedTaskIds # {}
    /\ HasSession
    /\ StartMutation(NewRequest("deleteIn", NoId, completedTaskIds, NoPayload,
                                FALSE, FALSE, FALSE))
    /\ UNCHANGED <<inputs, swipeVars, sheetTouchVars, sheetMotionVars, authVars, sheetVars, formVars, pullVars, storeVars,
                   deleteCandidateId>>

(***************************************************************************)
(* Pull to refresh.                                                        *)
(***************************************************************************)
\* handleRootTouchStart; scrolled is window.scrollY > 0
handleRootTouchStart(scrolled) ==
    /\ pullStartRef' =
         (~(~isMobile \/ isQuickAddOpen \/ deleteCandidateId # NoId \/ isMutating
              \/ isLoadingTasks \/ isRefreshing)
          /\ ~scrolled)
    /\ UNCHANGED <<inputs, swipeVars, sheetTouchVars, sheetMotionVars, authVars, listVars, sheetVars, formVars, pullDistance,
                   storeVars, deleteCandidateId, inflight>>

\* handleRootTouchMove; delta is currentY - pullStartRef.current in px
handleRootTouchMove(delta, scrolled) ==
    /\ pullStartRef
    /\ pullDistance' =
         IF delta <= 0 \/ scrolled THEN 0
         ELSE IF delta * 9 < pullRefreshMaxPx * PullScale THEN delta * 9
         ELSE pullRefreshMaxPx * PullScale
    /\ UNCHANGED <<inputs, swipeVars, sheetTouchVars, sheetMotionVars, authVars, listVars, sheetVars, formVars, pullStartRef,
                   storeVars, deleteCandidateId, inflight>>

\* refreshTasks() starts a reload
RefreshStartsAbove ==
    /\ pullDistance > pullRefreshTriggerPx * PullScale
    /\ ~(isRefreshing \/ isMutating)
    /\ HasSession
RefreshStarts ==
    /\ pullDistance >= pullRefreshTriggerPx * PullScale
    /\ ~(isRefreshing \/ isMutating)
    /\ HasSession

\* handleRootTouchEnd (touch end and touch cancel)
handleRootTouchEnd ==
    /\ pullStartRef
    /\ IF RefreshStarts
       THEN /\ CanSend
            /\ isRefreshing' = TRUE
            /\ errorMessage' = ""
            /\ inflight' = Append(inflight, SelectRequest(FALSE, TRUE))
       ELSE UNCHANGED <<isRefreshing, errorMessage, inflight>>
    /\ pullDistance' = 0
    /\ pullStartRef' = FALSE
    /\ UNCHANGED <<inputs, swipeVars, sheetTouchVars, sheetMotionVars, authVars, tasks, isLoadingTasks, isMutating, sheetVars,
                   formVars, storeVars, deleteCandidateId>>

(***************************************************************************)
(* Continuations after the await.                                          *)
(***************************************************************************)
\* error.message || fallback
MessageOr(message, fallback) == IF message # "" THEN message ELSE fallback

\* the list loadTasks sets: the rows, or [] in the error branch and the catch
LoadedTasks(req) == IF req.outcome = "ok" THEN MapRows(req.data) ELSE <<>>

\* the finally of refreshTasks
RefreshingAfterOk(req) == IF req.refresh /\ req.outcome = "ok" THEN FALSE ELSE isRefreshing
RefreshingAfter(req) == IF req.refresh THEN FALSE ELSE isRefreshing

\* loadTasks after the await, and the finally of refreshTasks
LoadDone(i) ==
    LET req == inflight[i]
        nextTasks == LoadedTasks(req)
    IN
    /\ req.phase = "answered" /\ req.kind = "select"
    /\ tasks' = nextTasks
    /\ errorMessage' =
         IF req.outcome = "ok" THEN errorMessage
         ELSE IF req.outcome = "error" THEN MessageOr(req.message, "Failed to load tasks.")
         ELSE "Failed to load tasks."
    /\ isLoadingTasks' = IF req.showLoadingState THEN FALSE ELSE isLoadingTasks
    /\ isRefreshing' = RefreshingAfter(req)
    /\ deleteCandidateId' = CandidateAfter(nextTasks, deleteCandidateId)
    /\ inflight' = RemoveAt(inflight, i)
    /\ UNCHANGED <<inputs, sheetTouchVars, sheetMotionVars, authVars, isMutating, sheetVars, formVars, pullVars, storeVars>>
    /\ RowsAfter(nextTasks, isLoadingTasks /\ ~req.showLoadingState, isMobile)

Fallback(kind) ==
    CASE kind = "insert" -> "Failed to create task."
      [] kind = "update" -> "Failed to update task."
      [] kind = "toggle" -> "Failed to update task status."
      [] kind = "delete" -> "Failed to delete task."
      [] OTHER -> "Failed to clear completed tasks."

\* the error branch of handleSubmit, toggleTask, confirmDelete, clearCompleted
MutationFailedRetried(i) ==
    LET req == inflight[i] IN
    /\ req.phase = "answered" /\ req.kind \in MutationKinds
    /\ req.outcome = "error"
    /\ errorMessage' = MessageOr(req.message, Fallback(req.kind))
    /\ inflight' = Append(RemoveAt(inflight, i),
                          [req EXCEPT !.phase = "sent", !.outcome = "", !.message = ""])
    /\ UNCHANGED <<inputs, swipeVars, sheetTouchVars, sheetMotionVars, authVars, tasks, isLoadingTasks, isMutating, isRefreshing,
                   sheetVars, formVars, pullVars, storeVars, deleteCandidateId>>
MutationFailed(i) ==
    LET req == inflight[i] IN
    /\ req.phase = "answered" /\ req.kind \in MutationKinds
    /\ req.outcome = "error"
    /\ errorMessage' = MessageOr(req.message, Fallback(req.kind))
    /\ isMutating' = FALSE
    /\ inflight' = RemoveAt(inflight, i)
    /\ UNCHANGED <<inputs, swipeVars, sheetTouchVars, sheetMotionVars, authVars, tasks, isLoadingTasks, isRefreshing, sheetVars,
                   formVars, pullVars, storeVars, deleteCandidateId>>

\* the awaited call rejected: the handler's promise rejects, nothing runs
MutationThrew(i) ==
    LET req == inflight[i] IN
    /\ req.phase = "answered" /\ req.kind \in MutationKinds
    /\ req.outcome = "throw"
    /\ inflight' = RemoveAt(inflight, i)
    /\ UNCHANGED <<inputs, swipeVars, sheetTouchVars, sheetMotionVars, authVars, listVars, sheetVars, formVars, pullVars,
                   storeVars, deleteCandidateId>>

ReplaceTaskEvery(ts, id, task) == [j \in 1..Len(ts) |-> task]
ReplaceTask(ts, id, task) == [j \in 1..Len(ts) |-> IF ts[j].id = id THEN task ELSE ts[j]]

\* the success branch of handleSubmit
SubmitDone(i) ==
    LET req == inflight[i]
        nextTasks == IF req.kind = "update"
                     THEN ReplaceTask(tasks, req.cEditing, fromTaskRow(req.data[1]))
                     ELSE Append(tasks, fromTaskRow(req.data[1]))
    IN
    /\ req.phase = "answered" /\ req.kind \in {"insert", "update"}
    /\ req.outcome = "ok"
    /\ tasks' = nextTasks
    /\ isMutating' = FALSE
    /\ resetForm(req.cIsMobile, req.cIsMobile, req.cOpen, req.cClosing)
    /\ deleteCandidateId' = CandidateAfter(nextTasks, deleteCandidateId)
    /\ inflight' = RemoveAt(inflight, i)
    /\ UNCHANGED <<inputs, sheetTouchVars, authVars, isLoadingTasks, errorMessage, isRefreshing,
                   isMobile, pullVars, storeVars>>
    /\ RowsAfter(nextTasks, isLoadingTasks, isMobile)

\* the success branch of toggleTask
ToggleDone(i) ==
    LET req == inflight[i]
        nextTasks == ReplaceTask(tasks, req.id, fromTaskRow(req.data[1]))
    IN
    /\ req.phase = "answered" /\ req.kind = "toggle"
    /\ req.outcome = "ok"
    /\ tasks' = nextTasks
    /\ isMutating' = FALSE
    /\ deleteCandidateId' = CandidateAfter(nextTasks, deleteCandidateId)
    /\ inflight' = RemoveAt(inflight, i)
    /\ UNCHANGED <<inputs, swipeVars, sheetTouchVars, sheetMotionVars, authVars, isLoadingTasks, errorMessage, isRefreshing,
                   sheetVars, formVars, pullVars, storeVars>>

\* the success branch of confirmDelete
DeleteDone(i) ==
    LET req == inflight[i]
        NotDeleted(t) == t.id # req.id
    IN
    /\ req.phase = "answered" /\ req.kind = "delete"
    /\ req.outcome = "ok"
    /\ IF req.cEditing = req.id
       THEN resetForm(req.cIsMobile, req.cIsMobile, req.cOpen, req.cClosing)
       ELSE UNCHANGED <<formVars, isQuickAddOpen, isQuickAddClosing, quickAddCloseTimerRef,
                        sheetMotionVars>>
    /\ tasks' = SelectSeq(tasks, NotDeleted)
    /\ deleteCandidateId' = NoId
    /\ isMutating' = FALSE
    /\ inflight' = RemoveAt(inflight, i)
    /\ UNCHANGED <<inputs, sheetTouchVars, authVars, isLoadingTasks, errorMessage, isRefreshing,
                   isMobile, pullVars, storeVars>>
    /\ RowsAfter(SelectSeq(tasks, NotDeleted), isLoadingTasks, isMobile)

\* the success branch of clearCompleted
ClearDone(i) ==
    LET req == inflight[i]
        NotCompleted(t) == ~t.completed
        nextTasks == SelectSeq(tasks, NotCompleted)
    IN
    /\ req.phase = "answered" /\ req.kind = "deleteIn"
    /\ req.outcome = "ok"
    /\ IF req.cEditing # NoId /\ req.cEditing \in req.ids
       THEN resetForm(req.cIsMobile, req.cIsMobile, req.cOpen, req.cClosing)
       ELSE UNCHANGED <<formVars, isQuickAddOpen, isQuickAddClosing, quickAddCloseTimerRef,
                        sheetMotionVars>>
    /\ tasks' = nextTasks
    /\ deleteCandidateId' = CandidateAfter(nextTasks, deleteCandidateId)
    /\ isMutating' = FALSE
    /\ inflight' = RemoveAt(inflight, i)
    /\ UNCHANGED <<inputs, sheetTouchVars, authVars, isLoadingTasks, errorMessage, isRefreshing,
                   isMobile, pullVars, storeVars>>
    /\ RowsAfter(nextTasks, isLoadingTasks, isMobile)

(***************************************************************************)
(* The values the environment supplies.                                    *)
(***************************************************************************)
LongTitle == Repeat("a", TitleMax + 1)
LongNotes == Repeat("n", NotesMax + 1)

Yesterday == AddDays(TodayDate, -1)
Tomorrow == AddDays(TodayDate, 1)

NoInputs ==
    [titles |-> {}, notesIn |-> {}, reminders |-> {}, reminderPresets |-> {},
     priorities |-> {}, presets |-> {}, pickDates |-> {}, errors |-> {""},
     throws |-> FALSE, users |-> {}, deltas |-> {}, swipes |-> {},
     swipeRows |-> {}, sheetDeltas |-> {}, nows |-> {}]

\* a row that is in the store before the session starts
SeedRow(id, user, done) ==
    [id |-> id, clerk_user_id |-> user, title |-> <<"a">>, notes |-> <<>>,
     due_date |-> TodayDate, reminder_at |-> NoTime, priority |-> "medium",
     completed |-> done, created_at |-> id]

(***************************************************************************)
(* Initial state: SignedInView has mounted under <SignedIn> and its mount  *)
(* effects have run (syncMedia, the hasSupabaseEnv effect, the initial     *)
(* load).                                                                  *)
(***************************************************************************)
InitialLoad ==
    [kind |-> "select", user |-> "u1", sub |-> "u1", id |-> NoId, ids |-> {},
     payload |-> NoPayload, completed |-> FALSE, showLoadingState |-> TRUE,
     refresh |-> FALSE, cIsMobile |-> isMobile, cEditing |-> NoId, cOpen |-> FALSE,
     cClosing |-> FALSE, phase |-> "sent", outcome |-> "", data |-> <<>>,
     message |-> "", tasks0 |-> <<>>,
     form0 |-> FormOf(<<>>, TodayDate, "medium", NoTime, <<>>), editing0 |-> NoId]

\* isLoadingTasks after mount: useState(true), cleared by the effect that
\* tests hasSupabaseEnv
LoadingAtMountAlways(env) == TRUE
LoadingAtMount(env) == env

ClientInit(in, mobiles, envs) ==
    /\ inputs = in
    /\ userId = "u1"
    /\ hasSupabaseEnv \in envs
    /\ tasks = <<>>
    /\ isLoadingTasks = LoadingAtMount(hasSupabaseEnv)
    /\ isMutating = FALSE
    /\ errorMessage = ""
    /\ isMobile \in mobiles
    /\ isQuickAddOpen = FALSE
    /\ isQuickAddClosing = FALSE
    /\ deleteCandidateId = NoId
    /\ selectedPreset = "today"
    /\ editingTaskId = NoId
    /\ pullDistance = 0
    /\ isRefreshing = FALSE
    /\ title = <<>>
    /\ dueDate = dateForPreset("today", TodayDate)
    /\ isDueDatePickerOpen = FALSE
    /\ priority = "medium"
    /\ reminderAt = NoTime
    /\ notes = <<>>
    /\ formErrors = NoErrors
    /\ pullStartRef = FALSE
    /\ quickAddCloseTimerRef = FALSE
    /\ loadedUserRef = IF hasSupabaseEnv THEN "u1" ELSE NoUser
    /\ rowTouch = [id \in Ids |-> FALSE]
    /\ swipeOffset = [id \in Ids |-> 0]
    /\ isDragging = [id \in Ids |-> FALSE]
    /\ dragBaseRef = [id \in Ids |-> 0]
    /\ isSwipingRef = [id \in Ids |-> FALSE]
    /\ quickAddDragY = 0
    /\ isQuickAddDragging = FALSE
    /\ quickAddFramePending = FALSE
    /\ quickAddTouchStartRef = FALSE
    /\ quickAddCanDragRef = FALSE
    /\ sheetTouch = "none"
    /\ clientGen = 0

InitWith(in, mobiles, envs, rows) ==
    /\ ClientInit(in, mobiles, envs)
    /\ inflight = IF hasSupabaseEnv THEN <<InitialLoad>> ELSE <<>>
    /\ db = rows
    /\ nextId = Cardinality(rows) + 1

Requests == DOMAIN inflight

StoreStep ==
    \E i \in Requests : StoreApply(i) \/ StoreReject(i) \/ StoreThrow(i)

Continuation ==
    \E i \in Requests :
        \/ LoadDone(i) \/ MutationFailed(i) \/ MutationThrew(i)
        \/ SubmitDone(i) \/ ToggleDone(i) \/ DeleteDone(i) \/ ClearDone(i)

RowAction ==
    \E id \in Ids : toggleTask(id) \/ startEdit(id) \/ requestDelete(id)

DeleteFlow == cancelDelete \/ confirmDelete

(***************************************************************************)
(* Spec: a session on a desktop viewport, from an empty store.             *)
(***************************************************************************)
SessionInputs ==
    [NoInputs EXCEPT !.titles = {<<>>, <<"a">>}, !.pickDates = {Tomorrow},
                     !.errors = {"", "permission denied"}, !.throws = TRUE]

Init == InitWith(SessionInputs, {FALSE}, BOOLEAN, {})

Next ==
    \/ \E v \in inputs.titles : SetTitle(v)
    \/ openDueDatePicker
    \/ \E d \in inputs.pickDates : pickDueDate(d)
    \/ handleSubmit
    \/ RowAction
    \/ DeleteFlow
    \/ clearCompleted
    \/ StoreStep
    \/ Continuation

Spec == Init /\ [][Next]_vars

(***************************************************************************)
(* SpecRefresh: a session on a mobile viewport over two stored rows, with  *)
(* pull to refresh.                                                        *)
(***************************************************************************)
RefreshInputs == [NoInputs EXCEPT !.deltas = {100, 160}, !.throws = TRUE]

InitRefresh ==
    InitWith(RefreshInputs, {TRUE}, {TRUE},
             {SeedRow(1, "u1", TRUE), SeedRow(2, "u1", FALSE)})

Pull ==
    \/ \E scrolled \in BOOLEAN : handleRootTouchStart(scrolled)
    \/ \E delta \in inputs.deltas, scrolled \in BOOLEAN : handleRootTouchMove(delta, scrolled)
    \/ handleRootTouchEnd

NextRefresh ==
    \/ \E id \in Ids : toggleTask(id) \/ requestDelete(id)
    \/ DeleteFlow
    \/ clearCompleted
    \/ Pull
    \/ StoreStep
    \/ \E i \in Requests :
          \/ LoadDone(i) \/ MutationFailed(i) \/ MutationThrew(i)
          \/ ToggleDone(i) \/ DeleteDone(i) \/ ClearDone(i)

SpecRefresh == InitRefresh /\ [][NextRefresh]_vars

(***************************************************************************)
(* SpecForm: the add/edit form on a desktop viewport.  The store holds two *)
(* rows, one of them with a reminder after its due date and seconds in its *)
(* timestamp; it answers the load and fails every mutation.                *)
(***************************************************************************)
FormInputs ==
    [NoInputs EXCEPT
        !.titles = {<<>>, <<" ">>, <<" ", "a", " ">>, Repeat("a", TitleMax), LongTitle},
        !.notesIn = {LongNotes},
        !.reminders = {MkTime(TodayDate, 86340), MkTime(Tomorrow, 0)},
        !.reminderPresets = {<<9, 0>>},
        !.priorities = {"high", "urgent"},
        !.presets = {"tomorrow"},
        !.pickDates = {Yesterday}]

LateRow ==
    [SeedRow(2, "u1", FALSE) EXCEPT
        !.reminder_at = ShiftMinutes(MkTime(Tomorrow, 30), 0 - TzOffsetMin),
        !.priority = "low"]

InitForm == InitWith(FormInputs, {FALSE}, {TRUE}, {SeedRow(1, "u1", FALSE), LateRow})

NextForm ==
    \/ \E v \in inputs.titles : SetTitle(v)
    \/ \E v \in inputs.notesIn : SetNotes(v)
    \/ \E v \in inputs.reminders \cup {NoTime} : SetReminderAt(v)
    \/ \E hm \in inputs.reminderPresets : applyReminderPreset(hm[1], hm[2])
    \/ \E v \in inputs.priorities : SelectPriority(v)
    \/ \E p \in inputs.presets : ChoosePreset(p)
    \/ openDueDatePicker
    \/ \E d \in inputs.pickDates : pickDueDate(d)
    \/ \E id \in Ids : startEdit(id)
    \/ closeQuickAdd
    \/ handleSubmit
    \/ \E i \in Requests : inflight[i].kind = "select" /\ StoreApply(i)
    \/ \E i \in Requests : inflight[i].kind # "select" /\ StoreReject(i)
    \/ \E i \in Requests : LoadDone(i)
    \/ \E i \in Requests : MutationFailed(i)

SpecForm == InitForm /\ [][NextForm]_vars

(***************************************************************************)
(* SpecAuth: the signed-in user changes during the session.  Desktop       *)
(* viewports have the form, mobile viewports have pull to refresh.         *)
(***************************************************************************)
AuthInputs ==
    [NoInputs EXCEPT !.titles = {<<"a">>}, !.users = Users \cup {NoUser},
                     !.deltas = {160}]

InitAuth ==
    InitWith(AuthInputs, BOOLEAN, {TRUE},
             {SeedRow(1, "u1", TRUE), SeedRow(2, "u2", FALSE)})

NextAuth ==
    \/ \E u \in inputs.users : AuthChange(u)
    \/ SupabaseClientChange
    \/ \E v \in inputs.titles : SetTitle(v)
    \/ handleSubmit
    \/ RowAction
    \/ DeleteFlow
    \/ clearCompleted
    \/ handleRootTouchStart(FALSE)
    \/ \E delta \in inputs.deltas : handleRootTouchMove(delta, FALSE)
    \/ handleRootTouchEnd
    \/ \E i \in Requests : inflight[i].kind = "select" /\ StoreApply(i)
    \/ \E i \in Requests : inflight[i].kind # "select" /\ StoreReject(i)
    \/ \E i \in Requests : LoadDone(i)
    \/ \E i \in Requests : MutationFailed(i)

SpecAuth == InitAuth /\ [][NextAuth]_vars

(***************************************************************************)
(* SpecStore: the store receives one insert or update that no form         *)
(* validated (any client holding the user's token can send it) while the   *)
(* session's initial load is in flight.                                    *)
(***************************************************************************)
LaterDate == AddDays(TodayDate, 3)

ForeignRequests ==
    {[InitialLoad EXCEPT
         !.kind = k, !.user = u, !.sub = sb,
         !.id = IF k = "update" THEN 1 ELSE NoId,
         !.showLoadingState = FALSE,
         !.payload = [title |-> t, due_date |-> TodayDate, priority |-> p,
                      reminder_at |-> r, notes |-> <<>>]] :
        k \in {"insert", "update"}, u \in Users, sb \in Users \cup {NoUser},
        t \in {<<>>, <<" ">>, <<"a">>}, p \in Priorities \cup {"urgent"},
        r \in {NoTime, MkTime(TodayDate, 32400), MkTime(LaterDate, 0)}}

InitStore ==
    /\ ClientInit(NoInputs, {FALSE}, {TRUE})
    /\ inflight \in {<<InitialLoad, r>> : r \in ForeignRequests}
    /\ db = {SeedRow(1, "u1", FALSE)}
    /\ nextId = 2

NextStore ==
    \/ \E i \in Requests : StoreApply(i)
    \/ \E i \in Requests : StoreReject(i)
    \/ \E i \in Requests : LoadDone(i)

SpecStore == InitStore /\ [][NextStore]_vars

(***************************************************************************)
(* SpecRls: the store holds rows of two users and receives one request of  *)
(* any kind, with or without the clerk_user_id filter, under the token of  *)
(* either user or under no token.                                          *)
(***************************************************************************)
RawPayloads ==
    {[title |-> <<"b">>, due_date |-> TodayDate, priority |-> "low",
      reminder_at |-> NoTime, notes |-> <<>>]}
    \cup {[title |-> <<"b">>, due_date |-> TodayDate, priority |-> "low",
           reminder_at |-> NoTime, notes |-> <<>>, clerk_user_id |-> u] : u \in Users}

RawRequests ==
    {[InitialLoad EXCEPT
         !.kind = k, !.user = u, !.sub = sb, !.id = id, !.ids = {1, 2},
         !.completed = TRUE, !.showLoadingState = FALSE, !.payload = p] :
        k \in {"select", "insert", "update", "toggle", "delete", "deleteIn"},
        u \in Users \cup {AnyUser}, sb \in Users \cup {NoUser}, id \in {1, 2},
        p \in RawPayloads}

InitRls ==
    /\ ClientInit(NoInputs, {FALSE}, {TRUE})
    /\ inflight \in {<<r>> : r \in {q \in RawRequests : q.kind = "insert" => q.user \in Users}}
    /\ \/ db = {SeedRow(1, "u1", FALSE), SeedRow(2, "u2", FALSE)} /\ nextId = 3
       \/ db = {SeedRow(1, "u2", FALSE)} /\ nextId = 2

NextRls ==
    \/ \E i \in Requests : StoreApply(i)
    \/ \E i \in Requests : StoreReject(i)

SpecRls == InitRls /\ [][NextRls]_vars

(***************************************************************************)
(* SpecPresets: the form's date presets and calendar, used on a desktop    *)
(* viewport while new Date() returns days around the ends of months.       *)
(***************************************************************************)
PresetNows ==
    {MkDate(2026, 1, d) : d \in 28..31}
    \cup {MkDate(2026, 2, 28), MkDate(2026, 3, 31), MkDate(2026, 6, 15),
          MkDate(2026, 12, 31), MkDate(2028, 1, 30), MkDate(2028, 2, 29)}

PresetInputs ==
    [NoInputs EXCEPT
        !.nows = PresetNows,
        !.pickDates = {dateForPreset(p, now) : p \in Presets, now \in PresetNows}
                      \cup {AddDays(now, 2) : now \in PresetNows}]

InitPresets == InitWith(PresetInputs, {FALSE}, {FALSE}, {})

NextPresets ==
    \/ \E p \in Presets, now \in inputs.nows : ChoosePresetAt(p, now)
    \/ openDueDatePicker
    \/ \E d \in inputs.pickDates, now \in inputs.nows : pickDueDateAt(d, now)

SpecPresets == InitPresets /\ [][NextPresets]_vars

(***************************************************************************)
(* SpecEdit: a task is edited while the list changes under it: deletes,    *)
(* clear-completed, pull-to-refresh loads that may fail, and switches      *)
(* between the desktop and the mobile viewport.                            *)
(***************************************************************************)
EditInputs == [NoInputs EXCEPT !.deltas = {160}]

InitEdit == InitWith(EditInputs, BOOLEAN, {TRUE}, {SeedRow(1, "u1", TRUE)})

NextEdit ==
    \/ \E id \in Ids : startEdit(id) \/ requestDelete(id)
    \/ DeleteFlow
    \/ clearCompleted
    \/ closeQuickAdd
    \/ CloseTimerFire
    \/ ViewportChange
    \/ handleRootTouchStart(FALSE)
    \/ \E delta \in inputs.deltas : handleRootTouchMove(delta, FALSE)
    \/ handleRootTouchEnd
    \/ StoreStep
    \/ Continuation

SpecEdit == InitEdit /\ [][NextEdit]_vars

(***************************************************************************)
(* SpecRow: the controls of a row (checkbox, edit, delete) are used on     *)
(* either viewport while the row is swiped open, partly or fully.          *)
(***************************************************************************)
RowInputs == [NoInputs EXCEPT !.swipes = {<<-100, 0>>, <<-1, 0>>}, !.swipeRows = {1}]

InitRow == InitWith(RowInputs, BOOLEAN, {TRUE}, {SeedRow(1, "u1", FALSE)})

NextRow ==
    \/ \E id \in inputs.swipeRows : handleTouchStart(id)
    \/ \E id \in inputs.swipeRows, sw \in inputs.swipes : handleTouchMove(id, sw[1], sw[2])
    \/ \E id \in inputs.swipeRows : handleTouchEnd(id)
    \/ \E id \in Ids : closeSwipeIfOpen(id)
    \/ RowAction
    \/ cancelDelete
    \/ closeQuickAdd
    \/ CloseTimerFire
    \/ \E i \in Requests : StoreApply(i)
    \/ \E i \in Requests : LoadDone(i)
    \/ \E i \in Requests : ToggleDone(i)

SpecRow == InitRow /\ [][NextRow]_vars

(***************************************************************************)
(* SpecEnv: the session of SpecAuth, with the Supabase endpoint and key    *)
(* configured or not.                                                      *)
(***************************************************************************)
InitEnv ==
    InitWith(AuthInputs, BOOLEAN, BOOLEAN,
             {SeedRow(1, "u1", TRUE), SeedRow(2, "u2", FALSE)})

SpecEnv == InitEnv /\ [][NextAuth]_vars

(***************************************************************************)
(* SpecBuckets: the store holds up to MaxBucketTasks rows of the user with *)
(* assorted due dates, priorities, completion flags and creation times;    *)
(* the initial load brings them into the list, from which every render     *)
(* computes todayTasks and upcomingTasks.                                  *)
(***************************************************************************)
DueChoices == <<Yesterday, TodayDate, Tomorrow, LaterDate>>
PriorityChoices == <<"high", "medium", "low">>

\* row i of n: the first k rows are due on DueChoices[b], the others on
\* DueChoices[b2]; priorities and completion cycle; creation times ascend,
\* descend, or tie across the two due dates
BucketRow(i, n, k, b, b2, c, d, mode) ==
    [SeedRow(i, "u1", (i + d) % 3 = 0) EXCEPT
        !.due_date = DueChoices[IF i <= k THEN b ELSE b2],
        !.priority = PriorityChoices[((i + c) % 3) + 1],
        !.created_at = IF mode = "desc" THEN n + 1 - i
                       ELSE IF mode = "tie" /\ i = k + 1 /\ k >= 1 /\ b # b2 THEN k
                       ELSE i]

BucketSeeds ==
    {{BucketRow(i, n, k, b, b2, c, d, mode) : i \in 1..n} :
        n \in 0..MaxBucketTasks, k \in 0..MaxBucketTasks, b \in 1..4, b2 \in 1..4,
        c \in 0..2, d \in 0..2, mode \in {"asc", "desc", "tie"}}

InitBuckets ==
    /\ ClientInit(NoInputs, BOOLEAN, {TRUE})
    /\ inflight = <<InitialLoad>>
    /\ db \in BucketSeeds
    /\ nextId = MaxBucketTasks + 1

NextBuckets ==
    \/ \E i \in Requests : StoreApply(i)
    \/ \E i \in Requests : LoadDone(i)

SpecBuckets == InitBuckets /\ [][NextBuckets]_vars

(***************************************************************************)
(* SpecActions: every action that sends a request (submit, toggle, confirm *)
(* delete, clear completed, pull-to-refresh release), on either viewport,  *)
(* against a store that may answer each request with data, with an error,  *)
(* or not at all.                                                          *)
(***************************************************************************)
ActionInputs == [NoInputs EXCEPT !.titles = {<<"a">>}, !.deltas = {160}, !.throws = TRUE]

InitActions == InitWith(ActionInputs, BOOLEAN, {TRUE}, {SeedRow(1, "u1", TRUE)})

NextActions ==
    \/ \E v \in inputs.titles : SetTitle(v)
    \/ handleSubmit
    \/ \E id \in Ids : toggleTask(id) \/ requestDelete(id)
    \/ DeleteFlow
    \/ clearCompleted
    \/ handleRootTouchStart(FALSE)
    \/ \E delta \in inputs.deltas : handleRootTouchMove(delta, FALSE)
    \/ handleRootTouchEnd
    \/ StoreStep
    \/ Continuation

SpecActions == InitActions /\ [][NextActions]_vars

(***************************************************************************)
(* SpecSwipe: a mobile session with two tasks; the row of the second is    *)
(* swiped while tasks are toggled and the viewport changes.                *)
(***************************************************************************)
SwipeInputs ==
    [NoInputs EXCEPT
        !.swipes = {<<-100, 0>>, <<-40, 0>>, <<-39, 0>>, <<-40, 50>>, <<5, 0>>, <<60, 0>>},
        !.swipeRows = {2}]

InitSwipe ==
    InitWith(SwipeInputs, {TRUE}, {TRUE},
             {SeedRow(1, "u1", FALSE), SeedRow(2, "u1", FALSE)})

NextSwipe ==
    \/ \E id \in inputs.swipeRows : handleTouchStart(id)
    \/ \E id \in inputs.swipeRows, sw \in inputs.swipes : handleTouchMove(id, sw[1], sw[2])
    \/ \E id \in inputs.swipeRows : handleTouchEnd(id)
    \/ \E id \in inputs.swipeRows : closeSwipeIfOpen(id)
    \/ \E id \in Ids : toggleTask(id)
    \/ ViewportChange
    \/ \E i \in Requests : StoreApply(i)
    \/ \E i \in Requests : LoadDone(i)
    \/ \E i \in Requests : ToggleDone(i)

SpecSwipe == InitSwipe /\ [][NextSwipe]_vars

(***************************************************************************)
(* Claims.                                                                 *)
(***************************************************************************)
\* the request a step has just sent, when it sent one
Sent == Len(inflight') > Len(inflight)
NewReq == inflight'[Len(inflight')]

IsSubmitRequest(req) == req.kind \in {"insert", "update"}

(***************************************************************************)
(* C1: when the remote call of a mutation returns an error, the task list  *)
(* is what it was when the handler was called, errorMessage is non-empty,  *)
(* isMutating is false again, and the form fields and editingTaskId are    *)
(* what they were when the handler was called.                             *)
(***************************************************************************)
C1_FailedMutationLeavesState ==
    [][\A i \in Requests :
          MutationFailed(i) =>
             /\ tasks' = inflight[i].tasks0
             /\ errorMessage' # ""
             /\ isMutating' = FALSE
             /\ FormFields' = inflight[i].form0
             /\ editingTaskId' = inflight[i].editing0]_vars

(***************************************************************************)
(* C2: when a load of the task list fails (error returned or exception     *)
(* thrown, initial load or refresh), an error string is shown and the task *)
(* list is left as it was.                                                 *)
(***************************************************************************)
C2_FailedLoadKeepsTasks ==
    [][\A i \in Requests :
          LoadDone(i) /\ inflight[i].outcome # "ok" =>
             /\ errorMessage' # ""
             /\ tasks' = tasks]_vars

(***************************************************************************)
(* C3: at most one remote request is in flight in every reachable state,   *)
(* so no mutation starts while a load or refresh awaits its response and   *)
(* no load or refresh starts while a mutation awaits its response.         *)
(***************************************************************************)
C3_OneRequestInFlight == Len(inflight) <= 1

(***************************************************************************)
(* C4: every request the client sends is scoped to the signed-in user: its *)
(* clerk_user_id filter (or inserted value) is the current userId, and no  *)
(* request is sent while userId is absent.                                 *)
(***************************************************************************)
C4_RequestsScopedToUser ==
    [][Sent => userId' # NoUser /\ NewReq.user = userId']_vars

\* the user changed and a mutation of the new user is in flight
C4_Witness ==
    /\ userId = "u2"
    /\ \E i \in Requests : inflight[i].kind \in MutationKinds /\ inflight[i].user = "u2"

(***************************************************************************)
(* C5: an insert or update is sent only with the trimmed form title, which *)
(* is neither empty nor longer than 160 characters; for any other title    *)
(* handleSubmit sends nothing.                                             *)
(***************************************************************************)
C5_TitleSentIsTrimmedNonEmpty ==
    \A i \in Requests :
        IsSubmitRequest(inflight[i]) =>
            /\ inflight[i].payload.title = Trim(inflight[i].form0.title)
            /\ Len(inflight[i].payload.title) >= 1
            /\ Len(inflight[i].payload.title) <= TitleMax

\* a title typed with surrounding blanks went out trimmed
C5_Witness ==
    \E i \in Requests :
        /\ IsSubmitRequest(inflight[i])
        /\ inflight[i].form0.title # inflight[i].payload.title

(***************************************************************************)
(* C6: an insert or update is sent only with no reminder or a reminder at  *)
(* or before 23:59:59 local time of its due date; when the form's reminder *)
(* is later, handleSubmit sends nothing and records the error on the       *)
(* reminder field.                                                         *)
(***************************************************************************)
\* the local wall time of a reminder_at is after the last second of the date
LateFor(reminder_at, date) ==
    /\ reminder_at # NoTime
    /\ TimeGT(ShiftMinutes(reminder_at, TzOffsetMin), MkTime(date, 86399))

C6_ReminderSentWithinDueDate ==
    [][/\ \A i \in DOMAIN inflight' :
             IsSubmitRequest(inflight'[i]) =>
                ~LateFor(inflight'[i].payload.reminder_at, inflight'[i].payload.due_date)
       /\ (handleSubmit /\ reminderAt # NoTime
                        /\ DateLT(dueDate, reminderAt.date)) =>
             /\ inflight' = inflight
             /\ formErrors'.reminderAt # ""]_vars

\* a submit was refused for its reminder
C6_Witness ==
    /\ formErrors.reminderAt = "Reminder should be on or before the due date"
    /\ reminderAt # NoTime
    /\ ~isMutating

(***************************************************************************)
(* C7: the store rejects every insert or update of a row whose trimmed     *)
(* title is empty, whose priority is not low, medium or high, or whose     *)
(* reminder is after the end of its due date; so no such row is stored.    *)
(***************************************************************************)
C7_StoreEnforcesInvariants ==
    \A r \in db :
        /\ Len(Trim(r.title)) > 0
        /\ r.priority \in Priorities
        /\ (r.reminder_at # NoTime => ~DateLT(AddDays(r.due_date, 1), r.reminder_at.date))

(***************************************************************************)
(* C8: the form's priority is one of low, medium, high in every reachable  *)
(* state (a select change to another value is ignored) and so is the       *)
(* priority of every insert and update sent.                               *)
(***************************************************************************)
C8_PriorityValid ==
    /\ priority \in Priorities
    /\ \A i \in Requests :
          IsSubmitRequest(inflight[i]) => inflight[i].payload.priority \in Priorities

\* a priority chosen in the select went out
C8_Witness ==
    /\ priority = "high"
    /\ \E i \in Requests :
          IsSubmitRequest(inflight[i]) /\ inflight[i].payload.priority = "high"

(***************************************************************************)
(* C9: clearCompleted sends a delete for exactly the ids of the completed  *)
(* tasks of the list, and nothing when there are none; when it succeeds,   *)
(* the tasks removed from the list are exactly the ids that were sent.     *)
(***************************************************************************)
C9_ClearRemovesWhatWasSent ==
    [][/\ (Sent /\ NewReq.kind = "deleteIn") =>
             /\ NewReq.ids = completedTaskIds
             /\ NewReq.ids # {}
       /\ \A i \in Requests :
             ClearDone(i) => TaskIds(tasks) \ TaskIds(tasks') = inflight[i].ids]_vars

(***************************************************************************)
(* C10: a delete of a single task T is sent only by confirmDelete while T  *)
(* is the delete candidate, and T becomes the candidate only by            *)
(* requestDelete(T); requestDelete and cancelDelete send nothing and leave *)
(* the task list unchanged.                                                *)
(***************************************************************************)
C10_DeleteOnlyAfterConfirm ==
    [][/\ (Sent /\ NewReq.kind = "delete") =>
             /\ confirmDelete
             /\ deleteCandidateId # NoId
             /\ NewReq.id = deleteCandidateId
       /\ (deleteCandidateId' # deleteCandidateId /\ deleteCandidateId' # NoId) =>
             requestDelete(deleteCandidateId')
       /\ ((\E id \in Ids : requestDelete(id)) \/ cancelDelete) =>
             /\ inflight' = inflight
             /\ tasks' = tasks]_vars

\* a confirmed delete of the candidate is in flight
C10_Witness ==
    \E i \in Requests :
        /\ inflight[i].kind = "delete"
        /\ inflight[i].id = deleteCandidateId
        /\ deleteCandidateId \in TaskIds(tasks)

(***************************************************************************)
(* C11: the today bucket holds exactly the tasks due today or earlier, the *)
(* upcoming bucket holds only tasks due after today, at most 6 of them and *)
(* the first 6 in sort order, and the two buckets are disjoint.            *)
(***************************************************************************)
C11_BucketsPartitionByDueDate ==
    LET all == {tasks[i] : i \in 1..Len(tasks)}
        inUpcoming == {upcomingTasks[i] : i \in 1..Len(upcomingTasks)}
        later == {t \in all : DateLT(TodayDate, t.dueDate)}
    IN
    /\ TaskIds(todayTasks) = {t.id : t \in all \ later}
    /\ Len(todayTasks) = Cardinality(all \ later)
    /\ inUpcoming \subseteq later
    /\ Len(upcomingTasks) = Cardinality(inUpcoming)
    /\ Len(upcomingTasks) = IF Cardinality(later) < 6 THEN Cardinality(later) ELSE 6
    /\ \A t \in later \ inUpcoming : \A u \in inUpcoming : sortTasks(t, u) >= 0
    /\ TaskIds(todayTasks) \cap TaskIds(upcomingTasks) = {}

\* more than 6 tasks are due later and one is due by today
C11_Witness ==
    /\ Cardinality(upcomingTaskIds) > 6
    /\ Len(upcomingTasks) = 6
    /\ todayTasks # <<>>

(***************************************************************************)
(* C12: in each bucket every incomplete task precedes every completed one; *)
(* with equal completion high precedes medium precedes low; with equal     *)
(* completion and priority the earlier createdAt comes first.  sortTasks   *)
(* is a strict weak order over the tasks of the list.                      *)
(***************************************************************************)
InOrder(bucket) ==
    \A i, j \in 1..Len(bucket) :
        i < j =>
            LET a == bucket[i]
                b == bucket[j]
            IN
            /\ ~(a.completed /\ ~b.completed)
            /\ a.completed = b.completed =>
                  /\ ~(a.priority = "low" /\ b.priority \in {"medium", "high"})
                  /\ ~(a.priority = "medium" /\ b.priority = "high")
            /\ (a.completed = b.completed /\ a.priority = b.priority) =>
                  a.createdAt <= b.createdAt

C12_BucketsSortedBySortTasks ==
    LET all == {tasks[i] : i \in 1..Len(tasks)}
        Same(a, b) == sortTasks(a, b) = 0
    IN
    /\ InOrder(todayTasks)
    /\ InOrder(upcomingTasks)
    /\ \A a, b \in all :
          /\ (sortTasks(a, b) < 0) = (sortTasks(b, a) > 0)
          /\ Same(a, b) = Same(b, a)
          /\ Same(a, a)
    /\ \A a, b, c \in all :
          /\ (sortTasks(a, b) < 0 /\ sortTasks(b, c) < 0) => sortTasks(a, c) < 0
          /\ (Same(a, b) /\ Same(b, c)) => Same(a, c)

\* the sort moved a task of the today bucket, which holds completed and
\* incomplete tasks of three priorities
C12_Witness ==
    LET DueByToday(t) == DateLE(t.dueDate, TodayDate)
    IN
    /\ todayTasks # SelectSeq(tasks, DueByToday)
    /\ \E i, j \in 1..Len(todayTasks) : todayTasks[i].completed # todayTasks[j].completed
    /\ {todayTasks[i].priority : i \in 1..Len(todayTasks)} = Priorities
    /\ \E i, j \in 1..Len(todayTasks) :
          i # j /\ todayTasks[i].createdAt = todayTasks[j].createdAt

(***************************************************************************)
(* C13: no retry and no batching: a step sends at most one request, and a  *)
(* request is sent only by a user action (submit, toggle, confirm delete,  *)
(* clear completed, release of a pull); the step that handles a response,  *)
(* an error included, sends nothing.                                       *)
(***************************************************************************)
UserSend ==
    \/ handleSubmit
    \/ \E id \in Ids : toggleTask(id)
    \/ confirmDelete
    \/ clearCompleted
    \/ handleRootTouchEnd

C13_NoRetryNoBatching ==
    [][/\ Len(inflight') <= Len(inflight) + 1
       /\ Sent =>
             /\ UserSend
             /\ NewReq.phase = "sent"
             /\ SubSeq(inflight', 1, Len(inflight)) = inflight
       /\ Continuation => Len(inflight') = Len(inflight) - 1]_vars

\* a mutation has failed and nothing is in flight
C13_Witness ==
    /\ errorMessage = "Failed to update task status."
    /\ inflight = <<>>
    /\ ~isMutating

(***************************************************************************)
(* C14: the swipe offset of every row is within 0..actionWidth, and while  *)
(* no touch is in progress on a row its offset is exactly 0 or exactly     *)
(* actionWidth, also after the row became disabled or the touch was        *)
(* cancelled mid-gesture.                                                  *)
(***************************************************************************)
C14_SwipeOffsetSnaps ==
    \A id \in Ids :
        /\ swipeOffset[id] >= 0
        /\ swipeOffset[id] <= 88
        /\ ~rowTouch[id] => swipeOffset[id] \in {0, 88}

(***************************************************************************)
(* The quick-add sheet on a mobile viewport: opened, dragged, closed,      *)
(* submitted.                                                              *)
(***************************************************************************)
SheetInputs ==
    [NoInputs EXCEPT !.titles = {<<"a">>}, !.sheetDeltas = {-10, 100, 121, 900}]

InitSheet == InitWith(SheetInputs, {TRUE}, {TRUE}, {SeedRow(1, "u1", FALSE)})

NextSheet ==
    \/ openQuickAddForCreate
    \/ closeQuickAdd
    \/ CloseTimerFire
    \/ QuickAddFrame
    \/ \E isGrabZone, scrolledTop \in BOOLEAN :
           handleQuickAddTouchStart(isGrabZone, scrolledTop)
    \/ \E delta \in inputs.sheetDeltas : handleQuickAddTouchMove(delta)
    \/ handleQuickAddTouchEnd
    \/ \E v \in inputs.titles : SetTitle(v)
    \/ handleSubmit
    \/ \E id \in Ids : startEdit(id)
    \/ ViewportChange
    \/ StoreStep
    \/ Continuation

SpecSheet == InitSheet /\ [][NextSheet]_vars

(***************************************************************************)
(* C15: the pull distance is always within 0..96 px; a pull gesture starts *)
(* only on a mobile viewport, scrolled to the top, with no sheet, delete   *)
(* candidate, mutation, initial load or refresh active; on touch end or    *)
(* cancel a refresh starts if and only if the distance at release is at    *)
(* least 72 px, and the distance is reset to 0 either way.                 *)
(***************************************************************************)
PullInRange(d) == d >= 0 /\ d <= 96 * PullScale

PullStartsIdle ==
    \A scrolled \in BOOLEAN :
        (handleRootTouchStart(scrolled) /\ pullStartRef') =>
            /\ isMobile /\ ~scrolled
            /\ ~isQuickAddOpen /\ deleteCandidateId = NoId
            /\ ~isMutating /\ ~isLoadingTasks /\ ~isRefreshing

RefreshSent == Sent /\ NewReq.kind = "select" /\ NewReq.refresh /\ isRefreshing'

DraggedDown == IF isQuickAddDragging THEN quickAddDragY ELSE 0

C17_InvalidSubmitOnlySetsErrors ==
    [][(handleSubmit /\ ~ParseSuccess(FormFields)) =>
          /\ inflight' = inflight
          /\ ~isMutating /\ ~isMutating'
          /\ tasks' = tasks
          /\ FormFields' = FormFields
          /\ editingTaskId' = editingTaskId /\ selectedPreset' = selectedPreset
          /\ formErrors'.title = TitleIssue(title)
          /\ formErrors'.notes = NotesIssue(notes)
          /\ formErrors'.reminderAt = ReminderIssue(dueDate, reminderAt)
          /\ formErrors'.dueDate = ""]_vars

\* a rejected submit left messages for three failing fields and sent nothing
C17_Witness ==
    /\ formErrors.title # "" /\ formErrors.notes # "" /\ formErrors.reminderAt # ""
    /\ formErrors.dueDate = ""
    /\ ~isMutating
    /\ \A i \in Requests : inflight[i].kind = "select"

(***************************************************************************)
(* C18: the store lets a request select, insert, update or delete a row    *)
(* only when the subject of the caller's token equals the row's            *)
(* clerk_user_id; an update cannot hand a row to another user; a caller    *)
(* without a token reaches no row.                                         *)
(***************************************************************************)
OwnedBy(sub, rows) == \A r \in rows : sub # NoUser /\ r.clerk_user_id = sub

C18_RowLevelSecurity ==
    [][\A i \in Requests :
          StoreApply(i) =>
              /\ OwnedBy(inflight[i].sub, db \ db')        \* rows deleted or rewritten
              /\ OwnedBy(inflight[i].sub, db' \ db)        \* rows inserted or as rewritten
              /\ OwnedBy(inflight[i].sub,                  \* rows returned
                         {inflight'[i].data[n] : n \in DOMAIN inflight'[i].data})]_vars

\* the store has let a user rewrite or delete that user's own row while
\* another user's row is stored
C18_Witness ==
    /\ \E i \in Requests :
          /\ inflight[i].phase = "answered" /\ inflight[i].outcome = "ok"
          /\ inflight[i].kind \in {"update", "delete", "deleteIn"}
          /\ inflight[i].user = AnyUser
    /\ \E r \in db : r.clerk_user_id = "u1"
    /\ \E r \in db : r.clerk_user_id = "u2" /\ r.title = <<"b">>

(***************************************************************************)
(* C19: a date preset sets the due date to today, today + 1 day, today + 7 *)
(* days, or the same day of next month; detectPreset(dateForPreset(p)) = p *)
(* for every current date and preset; any other date is "custom".          *)
(***************************************************************************)
SameDayNextMonth(now) ==
    IF now.m = 12 THEN MkDate(now.y + 1, 1, now.d) ELSE MkDate(now.y, now.m + 1, now.d)

PresetDate(p, now) ==
    CASE p = "today" -> now
      [] p = "tomorrow" -> AddDays(now, 1)
      [] p = "next-week" -> AddDays(now, 7)
      [] p = "next-month" -> SameDayNextMonth(now)

C19_PresetDates ==
    [][\A now \in inputs.nows :
          /\ \A p \in Presets :
                (ChoosePresetAt(p, now) /\ p # selectedPreset) =>
                    /\ dueDate' = PresetDate(p, now)
                    /\ detectPreset(dueDate', now) = p
          /\ \A d \in inputs.pickDates :
                pickDueDateAt(d, now) =>
                    (selectedPreset' = "custom") = (d \notin {PresetDate(p, now) : p \in Presets})]_vars

(***************************************************************************)
(* C20: a successful mutation changes only the task it targets: a create   *)
(* appends exactly one task, the returned row; an edit or a toggle         *)
(* replaces the task with the matching id and leaves every other task, the *)
(* length and the order of the list as they were; a toggle requests the    *)
(* negation of the task's current completed flag.                          *)
(***************************************************************************)
OnlyReplaced(id, row) ==
    /\ Len(tasks') = Len(tasks)
    /\ \A n \in 1..Len(tasks) :
          /\ tasks'[n].id = tasks[n].id
          /\ tasks'[n] = IF tasks[n].id = id THEN fromTaskRow(row) ELSE tasks[n]

C20_MutationTouchesOnlyItsTask ==
    [][/\ \A i \in Requests :
             /\ (SubmitDone(i) /\ inflight[i].kind = "insert") =>
                    /\ Len(tasks') = Len(tasks) + 1
                    /\ SubSeq(tasks', 1, Len(tasks)) = tasks
                    /\ tasks'[Len(tasks')] = fromTaskRow(inflight[i].data[1])
             /\ (SubmitDone(i) /\ inflight[i].kind = "update") =>
                    OnlyReplaced(inflight[i].cEditing, inflight[i].data[1])
             /\ ToggleDone(i) => OnlyReplaced(inflight[i].id, inflight[i].data[1])
       /\ \A id \in Ids :
             toggleTask(id) =>
                 /\ Sent /\ NewReq.kind = "toggle" /\ NewReq.id = id
                 /\ \E n \in 1..Len(tasks) :
                        tasks[n].id = id /\ NewReq.completed = ~tasks[n].completed]_vars

\* of two tasks, one created after the other, exactly one has been toggled
C20_Witness ==
    /\ Len(tasks) = 2
    /\ tasks[1].completed # tasks[2].completed
    /\ ~isMutating /\ inflight = <<>>

(***************************************************************************)
(* C21: a pull-to-refresh reload starts only while no refresh and no       *)
(* mutation is in progress, so at most one refresh is in flight;           *)
(* isRefreshing is cleared when the reload finishes, whether it succeeded, *)
(* returned an error or threw; a refresh never changes isLoadingTasks.     *)
(***************************************************************************)
RefreshesInFlight == {i \in Requests : inflight[i].refresh}

C21_RefreshGuard ==
    [][/\ (Sent /\ NewReq.refresh) =>
             /\ ~isRefreshing /\ ~isMutating
             /\ isRefreshing'
             /\ isLoadingTasks' = isLoadingTasks
       /\ Cardinality(RefreshesInFlight) <= 1 /\ Cardinality(RefreshesInFlight') <= 1
       /\ \A i \in Requests :
             (LoadDone(i) /\ inflight[i].refresh) =>
                 /\ ~isRefreshing'
                 /\ isLoadingTasks' = isLoadingTasks]_vars

\* a refresh is about to finish by the exception its request threw
C21_Witness ==
    \E i \in Requests :
        /\ inflight[i].refresh /\ inflight[i].phase = "answered"
        /\ inflight[i].outcome = "throw"
        /\ isRefreshing /\ ~isLoadingTasks

(***************************************************************************)
(* C22: on a mobile viewport, when the close timer of a requested close    *)
(* fires the sheet is closed (isQuickAddOpen and isQuickAddClosing false,  *)
(* drag offset 0) and the form is back at its defaults; in every reachable *)
(* state isQuickAddClosing implies isQuickAddOpen.                         *)
(***************************************************************************)
FormAtDefaults ==
    /\ editingTaskId = NoId
    /\ title = <<>> /\ notes = <<>> /\ reminderAt = NoTime
    /\ priority = "medium" /\ selectedPreset = "today"
    /\ formErrors = NoErrors

ClosingIsOpen == isQuickAddClosing => isQuickAddOpen

C22_SheetCloseProtocol ==
    [][/\ ClosingIsOpen /\ ClosingIsOpen'
       /\ CloseTimerFire =>
             /\ ~isQuickAddOpen' /\ ~isQuickAddClosing' /\ quickAddDragY' = 0
             /\ FormAtDefaults']_vars

(***************************************************************************)
(* C23: every started mutation releases the UI lock: isMutating, set by    *)
(* handleSubmit, toggleTask, confirmDelete or clearCompleted, is false     *)
(* again once the remote call has completed, whatever its outcome (data,   *)
(* error, no row, or a rejection), so isMutating holds only while a        *)
(* mutation's call is still pending.                                       *)
(***************************************************************************)
C23_MutationLockReleased ==
    isMutating => \E i \in Requests : inflight[i].kind \in MutationKinds

(***************************************************************************)
(* C24: in every reachable state the task being edited exists:             *)
(* editingTaskId is null or the id of a task of the in-memory list.        *)
(***************************************************************************)
C24_EditedTaskExists ==
    editingTaskId = NoId \/ editingTaskId \in TaskIds(tasks)

(***************************************************************************)
(* C25: the delete confirmation never targets a missing task: the delete   *)
(* candidate is null or the id of a task of the in-memory list (it is      *)
(* reset when a load, refresh, clear-completed or delete removes the       *)
(* task), and every delete request confirmDelete sends names a task of     *)
(* the list.                                                               *)
(***************************************************************************)
CandidateListed == deleteCandidateId = NoId \/ deleteCandidateId \in TaskIds(tasks)

C25_DeleteTargetsListedTask ==
    [][/\ CandidateListed /\ CandidateListed'
       /\ (Sent /\ NewReq.kind = "delete") =>
             /\ NewReq.id = deleteCandidateId
             /\ NewReq.id \in TaskIds(tasks)]_vars

\* the list lost the task whose deletion was being confirmed, and the
\* candidate is null again
C25_Witness ==
    /\ deleteCandidateId = NoId
    /\ tasks = <<>>
    /\ \E i \in Requests : inflight[i].kind = "delete" /\ inflight[i].phase = "sent"

(***************************************************************************)
(* C26: a task that was successfully created, edited or toggled is not     *)
(* lost by an overlapping load: once every request in flight has completed *)
(* (and no error is shown), the in-memory list contains the row the store  *)
(* returned for each successful mutation, i.e. every row the store holds   *)
(* for the user, all of them written by this session.                      *)
(***************************************************************************)
C26_MutationSurvivesLoad ==
    (inflight = <<>> /\ errorMessage = "") =>
        \A r \in db :
            r.clerk_user_id = userId =>
                \E n \in 1..Len(tasks) : tasks[n] = fromTaskRow(r)

(***************************************************************************)
(* C27: the initial load is issued at most once per signed-in user: while  *)
(* userId stays the same a re-run of the load effect (another client,      *)
(* another loadTasks) issues no load; an initial load is issued only when  *)
(* userId becomes a present value it was not before.                       *)
(***************************************************************************)
C27_InitialLoadOncePerUser ==
    [][/\ (Sent /\ NewReq.kind = "select" /\ NewReq.showLoadingState) =>
             /\ userId' # userId /\ userId' # NoUser
             /\ NewReq.user = userId'
       /\ SupabaseClientChange => ~Sent /\ isLoadingTasks' = isLoadingTasks]_vars

\* the load effect ran again for the user whose initial load already finished
C27_Witness ==
    /\ clientGen = 1
    /\ userId = "u1" /\ loadedUserRef = "u1"
    /\ ~isLoadingTasks /\ Len(tasks) = 1 /\ inflight = <<>>

(***************************************************************************)
(* C28: presenting the quick-add sheet cancels a pending close: after the  *)
(* sheet is presented (Quick Add or start-edit on mobile) no close timer   *)
(* is pending, so no stale timer closes it or resets its form; the same    *)
(* holds when the viewport switches to desktop; a close timer fires only   *)
(* on a mobile viewport for a sheet that is still closing.                 *)
(***************************************************************************)
C28_PresentCancelsClose ==
    [][/\ (isMobile /\ (openQuickAddForCreate \/ \E id \in Ids : startEdit(id)))
             => ~quickAddCloseTimerRef'
       /\ (isMobile /\ ViewportChange) => ~quickAddCloseTimerRef'
       /\ CloseTimerFire => (isMobile /\ isQuickAddClosing)]_vars

(***************************************************************************)
(* C29: on a row that is swiped open (offset > 0) the checkbox and the     *)
(* edit button only close the row (offset 0), with no toggle and no        *)
(* start-edit; a toggle or a start-edit comes only from a row whose offset *)
(* is 0; no toggle, edit or delete comes from a row while it is disabled.  *)
(***************************************************************************)
ToggleInvoked(id) == Sent /\ NewReq.kind = "toggle" /\ NewReq.id = id
EditInvoked(id) == startEdit(id)
DeleteInvoked(id) == deleteCandidateId # id /\ deleteCandidateId' = id

C29_RowActionsGuarded ==
    [][\A id \in Ids :
          /\ closeSwipeIfOpen(id) =>
                /\ swipeOffset[id] > 0 /\ swipeOffset'[id] = 0
                /\ ~Sent /\ ~isMutating'
                /\ UNCHANGED formVars /\ UNCHANGED isQuickAddOpen
          /\ (ToggleInvoked(id) \/ EditInvoked(id)) => swipeOffset[id] = 0
          /\ (ToggleInvoked(id) \/ EditInvoked(id) \/ DeleteInvoked(id)) =>
                (~isMutating /\ hasSupabaseEnv)]_vars

\* the finger still rests on row 1, which it had swiped open and which the
\* checkbox or the edit button has closed
C29_Witness ==
    /\ rowTouch[1] /\ isSwipingRef[1] /\ dragBaseRef[1] = 0
    /\ swipeOffset[1] = 0
    /\ ~isMutating /\ editingTaskId = NoId

(***************************************************************************)
(* C30: when the Supabase endpoint or key is not configured the client     *)
(* never issues a request: no load, submit, toggle, delete or clear is in  *)
(* flight or locks the UI, the task list stays as it was (empty), and the  *)
(* loading flag is cleared.                                                *)
(***************************************************************************)
C30_NoRequestWithoutEnv ==
    ~hasSupabaseEnv =>
        /\ inflight = <<>>
        /\ tasks = <<>>
        /\ ~isLoadingTasks /\ ~isMutating /\ ~isRefreshing

\* without configuration a title was typed, the user changed and the
\* Supabase client was rebuilt
C30_Witness ==
    /\ ~hasSupabaseEnv
    /\ title = <<"a">> /\ userId = "u2" /\ clientGen = 1
    /\ ~isLoadingTasks /\ inflight = <<>>

====
